---------------------------- MODULE Spec2Model ----------------------------
(***************************************************************************)
(* Model of the audio transcription handlers of                            *)
(* src/src/controllers/diagnosisController.ts: transcribe,                 *)
(* transcribeWithSpeakers and the pure helpers they call (fallback         *)
(* speaker synthesis, segment optimisation, voice-pattern analysis,        *)
(* speaker-label normalisation and Whisper/AssemblyAI text alignment).     *)
(*                                                                         *)
(* Representation.  A JavaScript string is a sequence of one-character     *)
(* strings.  A JavaScript object is a record; the spread {...o, k: v} is   *)
(* Spread([k |-> v], o).  A confidence (a float in [0,1]) is kept in       *)
(* hundredths; an average of confidences is the pair <<sum, count>>.       *)
(* Times are integer milliseconds.                                         *)
(***************************************************************************)
EXTENDS Integers, Sequences, FiniteSets, TLC

VARIABLES
  handler,          \* which exported handler serves the request
  env,              \* process.env: which API keys are configured
  file,             \* req.file: whether present, its size and extension
  fileExists,       \* whether the uploaded temporary file is on disk
  unlinkCalls,      \* number of fs.unlinkSync calls made on the file
  pc,               \* position of the handler
  srcA,             \* the OpenAI Whisper translation promise (Source A)
  srcB,             \* the AssemblyAI upload + transcribe promise (Source B)
  transcriptText,   \* local transcriptText of the handler
  speakerSegments,  \* local speakerSegments of the handler
  called,           \* which post-processing helpers the handler called
  responses,        \* every response sent on res, in order
  analysis2D,       \* the request loop of AnalysisIntegrationService.analyze2DImage
  polling3D,        \* the poll closure of AnalysisIntegrationService.poll3DJobStatus
  invitations,      \* the invitation of a token, its user and organization, and
                    \* the requests of acceptInvitation and getInvitationByToken
  diagnoses         \* the Diagnosis collection and the requests of analyzeConversation

\* The variables of the transcription handlers.
transcriptionVars == <<handler, env, file, fileExists, unlinkCalls, pc, srcA, srcB,
                       transcriptText, speakerSegments, called, responses>>

\* The variables of the other services.
serviceVars == <<analysis2D, polling3D, invitations, diagnoses>>

vars == <<transcriptionVars, serviceVars>>

\* A service no request of which is being served.
Unused == [pc |-> "unused"]

ServicesUnused ==
  /\ analysis2D = Unused
  /\ polling3D = Unused
  /\ invitations = Unused
  /\ diagnoses = Unused

-----------------------------------------------------------------------------
(* JavaScript string primitives.                                           *)

Whitespace == {" ", "\n"}

SentenceDelims == {".", "!", "?"}

lowerChar(c) ==
  CASE c = "A" -> "a" [] c = "B" -> "b" [] c = "C" -> "c" [] c = "D" -> "d"
    [] c = "E" -> "e" [] c = "F" -> "f" [] c = "G" -> "g" [] c = "H" -> "h"
    [] c = "I" -> "i" [] c = "J" -> "j" [] c = "K" -> "k" [] c = "L" -> "l"
    [] c = "M" -> "m" [] c = "N" -> "n" [] c = "O" -> "o" [] c = "P" -> "p"
    [] c = "Q" -> "q" [] c = "R" -> "r" [] c = "S" -> "s" [] c = "T" -> "t"
    [] c = "U" -> "u" [] c = "V" -> "v" [] c = "W" -> "w" [] c = "X" -> "x"
    [] c = "Y" -> "y" [] c = "Z" -> "z"
    [] OTHER -> c

upperChar(c) ==
  CASE c = "a" -> "A" [] c = "b" -> "B" [] c = "c" -> "C" [] c = "d" -> "D"
    [] c = "e" -> "E" [] c = "f" -> "F" [] c = "g" -> "G" [] c = "h" -> "H"
    [] c = "i" -> "I" [] c = "j" -> "J" [] c = "k" -> "K" [] c = "l" -> "L"
    [] c = "m" -> "M" [] c = "n" -> "N" [] c = "o" -> "O" [] c = "p" -> "P"
    [] c = "q" -> "Q" [] c = "r" -> "R" [] c = "s" -> "S" [] c = "t" -> "T"
    [] c = "u" -> "U" [] c = "v" -> "V" [] c = "w" -> "W" [] c = "x" -> "X"
    [] c = "y" -> "Y" [] c = "z" -> "Z"
    [] OTHER -> c

toLowerCase(s) == [i \in 1..Len(s) |-> lowerChar(s[i])]

toUpperCase(s) == [i \in 1..Len(s) |-> upperChar(s[i])]

startsWith(s, p) == Len(p) <= Len(s) /\ SubSeq(s, 1, Len(p)) = p

endsWith(s, p) == Len(p) <= Len(s) /\ SubSeq(s, Len(s) - Len(p) + 1, Len(s)) = p

includes(s, p) ==
  \E i \in 1..(Len(s) - Len(p) + 1) : SubSeq(s, i, i + Len(p) - 1) = p

trim(s) ==
  LET keep == {i \in 1..Len(s) : s[i] \notin Whitespace}
      Min(S) == CHOOSE m \in S : \A n \in S : m <= n
      Max(S) == CHOOSE m \in S : \A n \in S : m >= n
  IN IF keep = {} THEN <<>> ELSE SubSeq(s, Min(keep), Max(keep))

\* String.prototype.split with a regular expression of the form [delims]+ :
\* the pieces between maximal runs of delimiter characters, empty first and
\* last pieces included.
RECURSIVE splitFrom(_, _, _, _, _)
splitFrom(s, delims, i, cur, inDelim) ==
  IF i > Len(s) THEN <<cur>>
  ELSE IF s[i] \in delims
       THEN IF inDelim
            THEN splitFrom(s, delims, i + 1, cur, TRUE)
            ELSE <<cur>> \o splitFrom(s, delims, i + 1, <<>>, TRUE)
       ELSE splitFrom(s, delims, i + 1, Append(cur, s[i]), FALSE)

split(s, delims) == splitFrom(s, delims, 1, <<>>, FALSE)

\* Array.prototype.join
RECURSIVE join(_, _)
join(parts, sep) ==
  IF Len(parts) = 0 THEN <<>>
  ELSE IF Len(parts) = 1 THEN parts[1]
  ELSE parts[1] \o sep \o join(Tail(parts), sep)

\* String.prototype.split with a one-character string separator.
RECURSIVE splitOnFrom(_, _, _, _)
splitOnFrom(s, sep, i, cur) ==
  IF i > Len(s) THEN <<cur>>
  ELSE IF s[i] = sep THEN <<cur>> \o splitOnFrom(s, sep, i + 1, <<>>)
  ELSE splitOnFrom(s, sep, i + 1, Append(cur, s[i]))

splitOn(s, sep) == splitOnFrom(s, sep, 1, <<>>)

\* Array.prototype.slice(from, to) with 0-based bounds

slice(seq, from, to) ==
  LET a == IF from > Len(seq) THEN Len(seq) ELSE from
      b == IF to > Len(seq) THEN Len(seq) ELSE to
  IN IF b <= a THEN <<>> ELSE SubSeq(seq, a + 1, b)

\* The object spread {...base, k1: v1, ...}: the later keys win.
Spread(over, base) == over @@ base

-----------------------------------------------------------------------------
(* Thresholds of the code.  Confidences are in hundredths, shares in       *)
(* percent, times in milliseconds, sizes in bytes, lengths in characters.  *)

MinSizeTranscribe == 100

MinSizeWithSpeakers == 1000

HighConfidence == 80

LowConfidence == 50

PreserveConfidence == 70

PreserveMaxSegments == 10

NoiseTextLength == 5

TrustConfidence == 60

ShortGapMs == 2000

ReasonableConfidence == 70

VeryShortGapMs == 500

DominancePercent == 95

RapidGapMs == 1500

RapidPercent == 85

DisparityConfidence == 25

ShortTextLength == 10

ShortPercent == 60

MonologueMinSegments == 3

MonologueMinScore == 2

SentenceMinLength == 3

FallbackMinTextLength == 10

FallbackSentenceMinLength == 5

FallbackSingleMinMs == 5000

FallbackSingleMsPerChar == 100

FallbackMinMs == 2000

FallbackMsPerChar == 80

FallbackGapMs == 500

FallbackSingleConfidence == 30

FallbackConfidence == 40

TextOnlyEndMs == 30000

TextOnlyConfidence == 50

-----------------------------------------------------------------------------
(* Numbers.  Math.round on a non-negative quotient num/den, den > 0.       *)

roundDiv(num, den) == (2 * num + den) \div (2 * den)

minOf(S) == CHOOSE m \in S : \A n \in S : m <= n

maxOf(S) == CHOOSE m \in S : \A n \in S : m >= n

mapSeq(seq, F(_)) == [i \in 1..Len(seq) |-> F(seq[i])]

RECURSIVE sumSeq(_)
sumSeq(seq) == IF Len(seq) = 0 THEN 0 ELSE seq[1] + sumSeq(Tail(seq))

\* A value that is not a string (utterance.speaker === null), and the
\* TypeError that calling a string method on it raises.
NullValue == <<"null">>

TypeError == <<"TypeError">>

-----------------------------------------------------------------------------
(* normalizeSpeakerLabel                                                   *)

\* normalizeSpeakerLabel with the two returned labels crossed.
normalizeSpeakerLabelCrossed(speaker) ==
  IF speaker = NullValue THEN TypeError
  ELSE IF includes(toLowerCase(speaker), <<"a">>) \/ speaker = <<"0">> THEN <<"B">>
  ELSE IF includes(toLowerCase(speaker), <<"b">>) \/ speaker = <<"1">> THEN <<"A">>
  ELSE toUpperCase(speaker)

normalizeSpeakerLabel(speaker) ==
  IF speaker = NullValue THEN TypeError
  ELSE IF includes(toLowerCase(speaker), <<"a">>) \/ speaker = <<"0">> THEN <<"A">>
  ELSE IF includes(toLowerCase(speaker), <<"b">>) \/ speaker = <<"1">> THEN <<"B">>
  ELSE toUpperCase(speaker)

-----------------------------------------------------------------------------
(* validateSpeakerQuality: averageConfidence is in hundredths, rounded as  *)
(* Math.round(averageConfidence * 100) / 100 rounds it.                    *)

uniqueOf(seq) ==
  LET first(i) == \A j \in 1..(i - 1) : seq[j] # seq[i]
      idx == {i \in 1..Len(seq) : first(i)}
      RECURSIVE pick(_)
      pick(S) == IF S = {} THEN <<>>
                 ELSE <<seq[minOf(S)]>> \o pick(S \ {minOf(S)})
  IN pick(idx)

validateSpeakerQuality(segments) ==
  IF Len(segments) = 0
  THEN [averageConfidence |-> 0, hasHighConfidenceSegments |-> FALSE, speakerCount |-> 0]
  ELSE LET confidences == mapSeq(segments, LAMBDA s : s.confidence)
       IN [averageConfidence |-> roundDiv(sumSeq(confidences), Len(confidences)),
           hasHighConfidenceSegments |->
             \E i \in 1..Len(segments) : segments[i].confidence > HighConfidence,
           speakerCount |-> Len(uniqueOf(mapSeq(segments, LAMBDA s : s.speaker))),
           highConfidenceCount |->
             Cardinality({i \in 1..Len(segments) : segments[i].confidence > HighConfidence}),
           lowConfidenceCount |->
             Cardinality({i \in 1..Len(segments) : segments[i].confidence < LowConfidence})]

-----------------------------------------------------------------------------
(* optimizeSpeakerSegments and shouldMergeSegments                         *)

\* [...segments].sort((a, b) => a.start - b.start): a stable sort.
RECURSIVE insertByStart(_, _)
insertByStart(sorted, seg) ==
  IF Len(sorted) = 0 THEN <<seg>>
  ELSE IF sorted[Len(sorted)].start <= seg.start THEN Append(sorted, seg)
  ELSE Append(insertByStart(SubSeq(sorted, 1, Len(sorted) - 1), seg), sorted[Len(sorted)])

RECURSIVE sortByStart(_)
sortByStart(segments) ==
  IF Len(segments) = 0 THEN <<>>
  ELSE insertByStart(sortByStart(SubSeq(segments, 1, Len(segments) - 1)),
                     segments[Len(segments)])

shouldMergeSegments(prev, current) ==
  LET timeDiff == current.start - prev.end
      sameSpeaker == prev.speaker = current.speaker
      shortGap == timeDiff < ShortGapMs
      reasonableConfidence == prev.confidence > ReasonableConfidence
                              /\ current.confidence > ReasonableConfidence
      veryShortGap == timeDiff < VeryShortGapMs
      differentSpeakers == prev.speaker # current.speaker
      highConfidence == prev.confidence > HighConfidence
                        /\ current.confidence > HighConfidence
      likelySamePerson == differentSpeakers /\ veryShortGap /\ highConfidence
  IN (sameSpeaker /\ shortGap /\ reasonableConfidence) \/ likelySamePerson

\* Object.keys of an object whose keys were inserted in the order of `labels`:
\* array-index keys first, ascending, then the other keys in insertion order.
digits == {"0", "1", "2", "3", "4", "5", "6", "7", "8", "9"}

digitValue(c) ==
  CASE c = "0" -> 0 [] c = "1" -> 1 [] c = "2" -> 2 [] c = "3" -> 3 [] c = "4" -> 4
    [] c = "5" -> 5 [] c = "6" -> 6 [] c = "7" -> 7 [] c = "8" -> 8 [] OTHER -> 9

isIndexKey(key) == Len(key) = 1 /\ key[1] \in digits

objectKeys(labels) ==
  LET keys == uniqueOf(labels)
      indexKeys == SelectSeq(keys, isIndexKey)
      otherKeys == SelectSeq(keys, LAMBDA k : ~isIndexKey(k))
      RECURSIVE ascending(_)
      ascending(S) ==
        IF S = {} THEN <<>>
        ELSE LET k == CHOOSE x \in S : \A y \in S : digitValue(x[1]) <= digitValue(y[1])
             IN <<k>> \o ascending(S \ {k})
  IN ascending({indexKeys[i] : i \in 1..Len(indexKeys)}) \o otherKeys

\* analyzeVoicePatterns with the dominance test alone.
analyzeVoicePatternsByDominance(segments) ==
  LET speakers == objectKeys(mapSeq(segments, LAMBDA s : s.speaker))
      majors == {k \in 1..Len(speakers) :
                   Cardinality({i \in 1..Len(segments) : segments[i].speaker = speakers[k]}) * 100
                     > DominancePercent * Len(segments)}
  IN IF Len(segments) >= 2 /\ majors # {}
     THEN [isSingleSpeaker |-> TRUE, primarySpeaker |-> speakers[minOf(majors)],
           reason |-> "Dominance pattern"]
     ELSE [isSingleSpeaker |-> FALSE, primarySpeaker |-> <<"A">>,
           reason |-> "Multiple speakers detected"]

analyzeVoicePatterns(segments) ==
  IF Len(segments) < 2
  THEN [isSingleSpeaker |-> FALSE, primarySpeaker |-> <<"A">>, reason |-> "Insufficient data"]
  ELSE
    LET idx == 1..Len(segments)
        speakers == objectKeys(mapSeq(segments, LAMBDA s : s.speaker))
        speakerCounts(sp) == Cardinality({i \in idx : segments[i].speaker = sp})
        totalSegments == Len(segments)
        majors == {k \in 1..Len(speakers) :
                     speakerCounts(speakers[k]) * 100 > DominancePercent * totalSegments}
        changes == {i \in 2..Len(segments) : segments[i - 1].speaker # segments[i].speaker}
        totalAlternations == Cardinality(changes)
        rapidAlternations ==
          Cardinality({i \in changes : segments[i].start - segments[i - 1].end < RapidGapMs})
        confSum(sp) == sumSeq(mapSeq(SelectSeq(segments, LAMBDA s : s.speaker = sp),
                                     LAMBDA s : s.confidence))
        \* avg(a) - avg(b) > DisparityConfidence / 100, cross-multiplied
        exceeds(a, b) ==
          confSum(a) * speakerCounts(b) - confSum(b) * speakerCounts(a)
            > DisparityConfidence * speakerCounts(a) * speakerCounts(b)
        shortSegments == Cardinality({i \in idx : Len(trim(segments[i].text)) < ShortTextLength})
    IN IF majors # {}
       THEN [isSingleSpeaker |-> TRUE, primarySpeaker |-> speakers[minOf(majors)],
             reason |-> "Dominance pattern"]
       ELSE IF totalAlternations > 0
               /\ rapidAlternations * 100 > RapidPercent * totalAlternations
       THEN [isSingleSpeaker |-> TRUE, primarySpeaker |-> speakers[1],
             reason |-> "Rapid alternations"]
       ELSE IF Len(speakers) = 2
               /\ (exceeds(speakers[1], speakers[2]) \/ exceeds(speakers[2], speakers[1]))
       THEN [isSingleSpeaker |-> TRUE,
             primarySpeaker |-> IF exceeds(speakers[1], speakers[2])
                                THEN speakers[1] ELSE speakers[2],
             reason |-> "Confidence disparity"]
       ELSE IF shortSegments * 100 > ShortPercent * totalSegments
       THEN [isSingleSpeaker |-> TRUE, primarySpeaker |-> speakers[1],
             reason |-> "Too many short segments"]
       ELSE [isSingleSpeaker |-> FALSE, primarySpeaker |-> <<"A">>,
             reason |-> "Multiple speakers detected"]

\* The loop of optimizeSpeakerSegments from index i on, `optimized` being
\* optimizedSegments so far.
RECURSIVE optimizeLoop(_, _, _, _)
optimizeLoop(sortedSegments, hasHigh, i, optimized) ==
  IF i > Len(sortedSegments) THEN optimized
  ELSE
    LET currentSegment == sortedSegments[i]
        n == Len(optimized)
    IN IF Len(trim(currentSegment.text)) < NoiseTextLength
       THEN optimizeLoop(sortedSegments, hasHigh, i + 1, optimized)
       ELSE IF currentSegment.confidence < LowConfidence /\ hasHigh
       THEN optimizeLoop(sortedSegments, hasHigh, i + 1, optimized)
       ELSE IF n > 0 /\ shouldMergeSegments(optimized[n], currentSegment)
       THEN optimizeLoop(sortedSegments, hasHigh, i + 1,
              [optimized EXCEPT ![n] =
                 Spread([text |-> optimized[n].text \o <<" ">> \o currentSegment.text,
                         end |-> currentSegment.end,
                         confidence |-> IF optimized[n].confidence >= currentSegment.confidence
                                        THEN optimized[n].confidence
                                        ELSE currentSegment.confidence],
                        optimized[n])])
       ELSE optimizeLoop(sortedSegments, hasHigh, i + 1,
              Append(optimized,
                     Spread([speaker |-> normalizeSpeakerLabel(currentSegment.speaker)],
                            currentSegment)))

optimizeSpeakerSegments(segments) ==
  IF Len(segments) = 0 THEN <<>>
  ELSE
    LET sortedSegments == sortByStart(segments)
        speakerValidation == validateSpeakerQuality(sortedSegments)
        optimizedSegments ==
          optimizeLoop(sortedSegments, speakerValidation.hasHighConfidenceSegments, 1, <<>>)
        voiceAnalysis == analyzeVoicePatterns(optimizedSegments)
    IN IF speakerValidation.averageConfidence > TrustConfidence
          /\ voiceAnalysis.isSingleSpeaker
       THEN mapSeq(optimizedSegments,
                   LAMBDA segment : Spread([speaker |-> voiceAnalysis.primarySpeaker,
                                            singleSpeakerDetected |-> TRUE], segment))
       ELSE optimizedSegments

-----------------------------------------------------------------------------
(* createFallbackSpeakerDetection                                          *)

\* The forEach of createFallbackSpeakerDetection from sentence `index`
\* (0-based, as in the code) on, with the synthetic clock at currentTime.
\* The forEach with a clock that advances by the duration alone.
RECURSIVE fallbackLoopWithoutGap(_, _, _)
fallbackLoopWithoutGap(sentences, index, currentTime) ==
  IF index >= Len(sentences) THEN <<>>
  ELSE
    LET cleanSentence == trim(sentences[index + 1])
        byLength == Len(cleanSentence) * FallbackMsPerChar
        duration == IF byLength > FallbackMinMs THEN byLength ELSE FallbackMinMs
    IN <<[speaker |-> IF index % 2 = 0 THEN <<"A">> ELSE <<"B">>,
          text |-> cleanSentence,
          start |-> currentTime,
          end |-> currentTime + duration,
          confidence |-> FallbackConfidence,
          fallback |-> TRUE,
          method |-> "sentence-alternation"]>>
       \o fallbackLoopWithoutGap(sentences, index + 1, currentTime + duration)

RECURSIVE fallbackLoop(_, _, _)
fallbackLoop(sentences, index, currentTime) ==
  IF index >= Len(sentences) THEN <<>>
  ELSE
    LET cleanSentence == trim(sentences[index + 1])
        byLength == Len(cleanSentence) * FallbackMsPerChar
        duration == IF byLength > FallbackMinMs THEN byLength ELSE FallbackMinMs
    IN IF Len(cleanSentence) < 3
       THEN fallbackLoop(sentences, index + 1, currentTime)
       ELSE <<[speaker |-> IF index % 2 = 0 THEN <<"A">> ELSE <<"B">>,
               text |-> cleanSentence,
               start |-> currentTime,
               end |-> currentTime + duration,
               confidence |-> FallbackConfidence,
               fallback |-> TRUE,
               method |-> "sentence-alternation"]>>
            \o fallbackLoop(sentences, index + 1, currentTime + duration + FallbackGapMs)

createFallbackSpeakerDetection(text) ==
  IF Len(text) = 0 \/ Len(trim(text)) < FallbackMinTextLength THEN <<>>
  ELSE
    LET sentences == SelectSeq(split(text, SentenceDelims),
                               LAMBDA s : Len(trim(s)) > FallbackSentenceMinLength)
        byLength == Len(text) * FallbackSingleMsPerChar
    IN IF Len(sentences) <= 1
       THEN <<[speaker |-> <<"A">>,
               text |-> trim(text),
               start |-> 0,
               end |-> IF byLength > FallbackSingleMinMs THEN byLength
                       ELSE FallbackSingleMinMs,
               confidence |-> FallbackSingleConfidence,
               fallback |-> TRUE,
               method |-> "single-sentence"]>>
       ELSE fallbackLoop(sentences, 0, 0)

-----------------------------------------------------------------------------
(* detectPatientMonologue                                                  *)

patientIndicators ==
  << <<"d","o","c","t","o","r",","," ","i"," ","a","m"," ","h","a","v","i","n","g">>,
     <<"h","e","l","l","o"," ","d","o","c","t","o","r">>,
     <<"i"," ","a","m"," ","h","a","v","i","n","g">>,
     <<"i"," ","h","a","v","e"," ","b","e","e","n"," ","h","a","v","i","n","g">>,
     <<"s","i","n","c","e"," ","t","h","e"," ","l","a","s","t"," ","n","i","g","h","t">>,
     <<"i"," ","a","m"," ","f","e","e","l","i","n","g">>,
     <<"m","y"," ","s","t","o","m","a","c","h">>,
     <<"h","e","a","d","a","c","h","e">>,
     <<"i"," ","d","o"," ","n","o","t"," ","h","a","v","e"," ","t","a","k","e","n">>,
     <<"m","y"," ","m","e","d","i","c","a","l"," ","h","i","s","t","o","r","y">>,
     <<"s","e","i","z","u","r","e","s">>,
     <<"b","l","o","a","t","i","n","g">>,
     <<"w","e","a","k","n","e","s","s">>,
     <<"p","a","i","n">>,
     <<"f","e","v","e","r">>,
     <<"s","t","o","m","a","c","h"," ","a","c","h","e">> >>

doctorIndicators ==
  << <<"c","a","n"," ","y","o","u">>,
     <<"w","h","a","t"," ","a","r","e">>,
     <<"h","o","w"," ","l","o","n","g">>,
     <<"w","h","e","n"," ","d","i","d">>,
     <<"l","e","t"," ","m","e">>,
     <<"p","l","e","a","s","e"," ","t","e","l","l"," ","m","e">>,
     <<"d","e","s","c","r","i","b","e">>,
     <<"a","n","y"," ","o","t","h","e","r"," ","s","y","m","p","t","o","m","s">>,
     <<"e","x","a","m","i","n","a","t","i","o","n">> >>

patientOpenings ==
  << <<"d","o","c","t","o","r",",">>,
     <<"h","e","l","l","o"," ","d","o","c","t","o","r">>,
     <<"i"," ","a","m"," ","h","a","v","i","n","g">>,
     <<"i"," ","h","a","v","e"," ","b","e","e","n">> >>

detectPatientMonologue(text, segments) ==
  LET lowerText == toLowerCase(text)
      patientScore == Len(SelectSeq(patientIndicators, LAMBDA ind : includes(lowerText, ind)))
      doctorScore == Len(SelectSeq(doctorIndicators, LAMBDA ind : includes(lowerText, ind)))
      startsWithPatient ==
        \E k \in 1..Len(patientOpenings) : startsWith(lowerText, patientOpenings[k])
  IN /\ patientScore >= MonologueMinScore
     /\ patientScore > doctorScore
     /\ startsWithPatient
     /\ Len(segments) > MonologueMinSegments

-----------------------------------------------------------------------------
(* contentBasedAlignment, intelligentTextAlignment, alignWhisperWithSpeakers *)

\* The map of contentBasedAlignment from segment `index` (1-based) on, with
\* wordIndex words already handed out.
RECURSIVE contentLoop(_, _, _, _, _)
contentLoop(words, totalDuration, assemblySegments, index, wordIndex) ==
  IF index > Len(assemblySegments) THEN <<>>
  ELSE
    LET segment == assemblySegments[index]
        segmentDuration == segment.end - segment.start
        \* Math.max(1, Math.round(words.length * segmentDuration / totalDuration));
        \* with totalDuration = 0 the proportion is NaN (0/0) and the slice is
        \* empty, or Infinity and the slice takes every remaining word.
        taken ==
          IF totalDuration = 0
          THEN IF segmentDuration = 0 THEN <<>>
               ELSE slice(words, wordIndex, Len(words))
          ELSE LET share == roundDiv(Len(words) * segmentDuration, totalDuration)
                   wordsForSegment == IF share > 1 THEN share ELSE 1
               IN slice(words, wordIndex, wordIndex + wordsForSegment)
        newIndex == wordIndex + Len(taken)
        segmentWords ==
          IF index = Len(assemblySegments) /\ newIndex < Len(words)
          THEN taken \o slice(words, newIndex, Len(words))
          ELSE taken
    IN <<Spread([text |-> join(segmentWords, <<" ">>),
                 whisperBased |-> TRUE,
                 assemblyAI |-> TRUE,
                 mappingMethod |-> "content-proportional"], segment)>>
       \o contentLoop(words, totalDuration, assemblySegments, index + 1, newIndex)

\* contentBasedAlignment distributing the words of the retained sentences
\* (its second parameter) instead of the words of the full text.
contentBasedAlignmentOfSentences(fullWhisperText, whisperSentences, assemblySegments) ==
  LET words == split(join(whisperSentences, <<" ">>), Whitespace)
      idx == 1..Len(assemblySegments)
      totalDuration == maxOf({assemblySegments[i].end : i \in idx})
                       - minOf({assemblySegments[i].start : i \in idx})
  IN contentLoop(words, totalDuration, assemblySegments, 1, 0)

contentBasedAlignment(fullWhisperText, whisperSentences, assemblySegments) ==
  LET words == split(trim(fullWhisperText), Whitespace)
      idx == 1..Len(assemblySegments)
      totalDuration == maxOf({assemblySegments[i].end : i \in idx})
                       - minOf({assemblySegments[i].start : i \in idx})
  IN contentLoop(words, totalDuration, assemblySegments, 1, 0)

\* The sentences of lines 678-681.
whisperSentencesOf(whisperText) ==
  SelectSeq(mapSeq(split(whisperText, SentenceDelims), trim),
            LAMBDA s : Len(s) > SentenceMinLength)

\* The monologue segment keeping the time range of the first segment.
patientMonologueOfFirstSegment(whisperText, assemblySegments) ==
  <<Spread([speaker |-> <<"B">>,
            text |-> trim(whisperText),
            confidence |->
              <<sumSeq(mapSeq(assemblySegments, LAMBDA s : s.confidence)),
                Len(assemblySegments)>>,
            whisperBased |-> TRUE,
            assemblyAI |-> TRUE,
            mappingMethod |-> "patient-monologue"], assemblySegments[1])>>

\* The single segment of lines 685-695.
patientMonologue(whisperText, assemblySegments) ==
  LET idx == 1..Len(assemblySegments)
  IN <<Spread([speaker |-> <<"B">>,
               text |-> trim(whisperText),
               start |-> minOf({assemblySegments[i].start : i \in idx}),
               end |-> maxOf({assemblySegments[i].end : i \in idx}),
               confidence |->
                 <<sumSeq(mapSeq(assemblySegments, LAMBDA s : s.confidence)),
                   Len(assemblySegments)>>,
               whisperBased |-> TRUE,
               assemblyAI |-> TRUE,
               mappingMethod |-> "patient-monologue"], assemblySegments[1])>>

\* The map of lines 709-723.
sentenceGrouping(whisperSentences, assemblySegments) ==
  LET S == Len(whisperSentences)
      N == Len(assemblySegments)
      sentencesPerUtterance == (S + N - 1) \div N
      grouped(index) ==
        LET startIdx == (index - 1) * sentencesPerUtterance
            endIdx == IF startIdx + sentencesPerUtterance < S
                      THEN startIdx + sentencesPerUtterance ELSE S
            combinedText == join(slice(whisperSentences, startIdx, endIdx), <<".", " ">>)
        IN IF endsWith(combinedText, <<".">>) THEN combinedText
           ELSE combinedText \o <<".">>
  IN [i \in 1..N |-> Spread([text |-> grouped(i),
                             whisperBased |-> TRUE,
                             assemblyAI |-> TRUE,
                             mappingMethod |-> "sentence-grouping"], assemblySegments[i])]

\* The one-to-one case left to the grouping branch (S >= N instead of S > N).
oneToOneByGrouping(whisperSentences, assemblySegments) ==
  sentenceGrouping(whisperSentences, assemblySegments)

\* The map of lines 699-705.
oneToOne(whisperSentences, assemblySegments) ==
  [i \in 1..Len(assemblySegments) |->
     Spread([text |-> whisperSentences[i],
             whisperBased |-> TRUE,
             assemblyAI |-> TRUE,
             mappingMethod |-> "one-to-one"], assemblySegments[i])]

intelligentTextAlignment(whisperText, assemblySegments) ==
  LET whisperSentences == whisperSentencesOf(whisperText)
      S == Len(whisperSentences)
      N == Len(assemblySegments)
  IN IF detectPatientMonologue(whisperText, assemblySegments)
     THEN patientMonologue(whisperText, assemblySegments)
     ELSE IF S = N
     THEN oneToOne(whisperSentences, assemblySegments)
     ELSE IF S > N
     THEN sentenceGrouping(whisperSentences, assemblySegments)
     ELSE contentBasedAlignment(whisperText, whisperSentences, assemblySegments)

\* The aligner without its single-segment branch.
alignWithoutSingleSegment(whisperText, assemblySegments) ==
  IF Len(whisperText) = 0 \/ Len(assemblySegments) = 0 THEN assemblySegments
  ELSE intelligentTextAlignment(whisperText, assemblySegments)

alignWhisperWithSpeakers(whisperText, assemblySegments) ==
  IF Len(whisperText) = 0 \/ Len(assemblySegments) = 0 THEN assemblySegments
  ELSE IF Len(assemblySegments) = 1
  THEN <<Spread([text |-> trim(whisperText),
                 whisperBased |-> TRUE,
                 assemblyAI |-> TRUE], assemblySegments[1])>>
  ELSE intelligentTextAlignment(whisperText, assemblySegments)

-----------------------------------------------------------------------------
(* Inputs of a request: what the two services answer and what was uploaded. *)

WhisperEmpty ==
  <<>>

WhisperBlank ==
  <<" ","\n">>

WhisperShort ==
  <<"O","k",".","\n">>

WhisperOne ==
  <<"I"," ","h","a","v","e"," ","h","a","d"," ","a"," ","b","a","d"," ","h","e","a","d","a","c",
  "h","e"," ","s","i","n","c","e"," ","y","e","s","t","e","r","d","a","y">>

WhisperTwo ==
  <<"I"," ","h","a","v","e"," ","a"," ","h","e","a","d","a","c","h","e","."," ","I","t"," ","s",
  "t","a","r","t","e","d"," ","y","e","s","t","e","r","d","a","y",".","\n">>

WhisperYes ==
  <<"Y","e","s","."," ","I"," ","h","a","v","e"," ","a"," ","h","e","a","d","a","c","h","e",".",
  " ","I","t"," ","s","t","a","r","t","e","d"," ","y","e","s","t","e","r","d","a","y",".">>

WhisperMonologue ==
  <<"D","o","c","t","o","r",","," ","I"," ","a","m"," ","h","a","v","i","n","g"," ","s","t","o",
  "m","a","c","h"," ","p","a","i","n"," ","s","i","n","c","e"," ","l","a","s","t"," ","n","i",
  "g","h","t",".">>

TextHello ==
  <<"H","e","l","l","o"," ","t","h","e","r","e"," ","d","o","c","t","o","r">>

TextHeadache ==
  <<"I"," ","h","a","v","e"," ","a"," ","h","e","a","d","a","c","h","e">>

TextStarted ==
  <<"I","t"," ","s","t","a","r","t","e","d"," ","y","e","s","t","e","r","d","a","y">>

TextYes ==
  <<"Y","e","s">>

TextStomach ==
  <<"M","y"," ","s","t","o","m","a","c","h"," ","h","u","r","t","s">>

TextNight ==
  <<"S","i","n","c","e"," ","l","a","s","t"," ","n","i","g","h","t">>

TextHurts ==
  <<"I","t"," ","h","u","r","t","s">>

PathWav ==
  <<"u","p","l","o","a","d","s","/","f","i","l","e","-","1",".","w","a","v">>

PathUpperWav ==
  <<"u","p","l","o","a","d","s","/","f","i","l","e","-","1",".","W","A","V">>

PathTxt ==
  <<"u","p","l","o","a","d","s","/","f","i","l","e","-","1",".","t","x","t">>

supportedFormats ==
  << <<"f","l","a","c">>,
     <<"m","4","a">>,
     <<"m","p","3">>,
     <<"m","p","4">>,
     <<"m","p","e","g">>,
     <<"m","p","g","a">>,
     <<"o","g","a">>,
     <<"o","g","g">>,
     <<"w","a","v">>,
     <<"w","e","b","m">> >>

\* What openaiClient.audio.translations.create resolves to (response_format
\* "text": a string).
WhisperValues ==
  {WhisperEmpty, WhisperBlank, WhisperShort, WhisperOne, WhisperTwo, WhisperYes,
   WhisperMonologue}

Utterance(speaker, text, start, end, confidence) ==
  [speaker |-> speaker, text |-> text, start |-> start, end |-> end,
   confidence |-> confidence]

UtterancesOne == <<Utterance(<<"A">>, TextHello, 0, 2000, 90)>>

UtterancesTwo ==
  <<Utterance(<<"A">>, TextHeadache, 0, 2000, 90),
    Utterance(<<"B">>, TextStarted, 2000, 4000, 85)>>

UtterancesLow ==
  <<Utterance(<<"1">>, TextStarted, 3000, 5000, 65),
    Utterance(<<"0">>, TextHeadache, 0, 2000, 60)>>

UtterancesNoise == <<Utterance(<<"A">>, TextYes, 0, 500, 60)>>

UtterancesMerge ==
  <<Utterance(<<"A">>, TextHeadache, 0, 1000, 80),
    Utterance(<<"A">>, TextStarted, 1500, 2500, 75),
    Utterance(<<"B">>, TextYes, 3000, 3500, 40)>>

UtterancesFour ==
  <<Utterance(<<"A">>, TextHello, 0, 1000, 90),
    Utterance(<<"B">>, TextStomach, 1000, 2000, 85),
    Utterance(<<"A">>, TextNight, 2000, 3000, 80),
    Utterance(<<"B">>, TextStarted, 3000, 4000, 80)>>

UtterancesNullSpeaker == <<Utterance(NullValue, TextHello, 0, 2000, 90)>>

\* Confident utterances that arrive out of start order.
UtterancesUnsorted ==
  <<Utterance(<<"B">>, TextStarted, 2000, 4000, 90),
    Utterance(<<"A">>, TextHeadache, 0, 2000, 85)>>

Transcript(status, utterances, text) ==
  [status |-> status, utterances |-> utterances, text |-> text]

\* What assemblyClient.transcripts.transcribe resolves to.
Transcripts ==
  {Transcript("completed", u, TextHello) :
     u \in {UtterancesOne, UtterancesTwo, UtterancesLow, UtterancesNoise,
            UtterancesMerge, UtterancesFour, UtterancesNullSpeaker,
            UtterancesUnsorted}}
  \cup {Transcript("completed", <<>>, TextHello),
        Transcript("completed", <<>>, <<>>),
        Transcript("error", <<>>, <<>>)}

\* Errors: status 0 stands for an error object without a status property.
Error(status, code, message) == [status |-> status, code |-> code, message |-> message]

WhisperErrors ==
  {Error(0, "ECONNRESET", "Connection error."),
   Error(429, "rate_limit_exceeded", "Rate limit reached"),
   Error(400, "invalid_request_error", "Invalid file format.")}

UploadErrors == {Error(0, "ECONNRESET", "Upload failed")}

TranscribeErrors == {Error(0, "ETIMEDOUT", "Polling timeout")}

UnlinkError == Error(0, "EPERM", "EPERM: operation not permitted, unlink")

NullSpeakerError == Error(0, "", "Cannot read properties of null (reading 'toLowerCase')")

FileSizes == {0, 50, 500, 5000}

FilePaths == {PathWav, PathUpperWav, PathTxt}

Handlers == {"transcribe", "transcribeWithSpeakers"}

NoFile == [present |-> FALSE, size |-> 0, path |-> <<>>]

Idle == [st |-> "idle"]

-----------------------------------------------------------------------------
(* Responses.  A message is its template with the interpolated values.     *)

Message(template, args) == [template |-> template, args |-> args]

Failure(status, error) == [status |-> status, success |-> FALSE, error |-> error]

Success(text, speakers, message) ==
  [status |-> 200, success |-> TRUE, text |-> text, speakers |-> speakers,
   message |-> message]

Send(response) == responses' = Append(responses, response)

\* The catch block of transcribeWithSpeakers.
catchWithSpeakers(err) ==
  IF err.status = 400
  THEN Failure(400, Message("Audio processing failed: ", <<err.message>>))
  ELSE IF err.status = 401
  THEN Failure(500, Message("API authentication failed (OpenAI or Assembly AI)", <<>>))
  ELSE IF err.status = 429
  THEN Failure(429, Message("Rate limit exceeded. Please try again later.", <<>>))
  ELSE Failure(500, Message("Transcription failed: ", <<err.message>>))

\* The catch block of transcribe.
catchTranscribe(err) ==
  IF err.status = 400
  THEN Failure(400, Message("Audio processing failed: ", <<err.message>>))
  ELSE IF err.status = 429
  THEN Failure(429, Message("Rate limit exceeded. Please try again later.", <<>>))
  ELSE IF err.status = 401
  THEN Failure(500, Message("OpenAI API authentication failed", <<>>))
  ELSE IF err.code = "ENOENT"
  THEN Failure(400, Message("Audio file not found or corrupted during upload", <<>>))
  ELSE Failure(500, Message("Transcription failed: ", <<err.message>>))

-----------------------------------------------------------------------------
(* Validation of the request, shared by transcribe and                     *)
(* transcribeWithSpeakers up to the size threshold and the key checks.     *)

fileExtension ==
  LET parts == splitOn(file.path, ".")
  IN toLowerCase(parts[Len(parts)])

\* One size threshold for both handlers.
minimumSizeOfTranscribe == MinSizeTranscribe

minimumSize ==
  IF handler = "transcribe" THEN MinSizeTranscribe ELSE MinSizeWithSpeakers

isSupportedFormat(ext) ==
  Len(ext) > 0 /\ \E k \in 1..Len(supportedFormats) : supportedFormats[k] = ext

keysConfigured ==
  /\ handler = "transcribeWithSpeakers" => env.assemblyKey
  /\ env.openaiKey

validFile ==
  /\ file.present
  /\ file.size # 0
  /\ file.size >= minimumSize
  /\ isSupportedFormat(fileExtension)

Init ==
  /\ handler \in Handlers
  /\ env \in [assemblyKey : BOOLEAN, openaiKey : BOOLEAN]
  /\ file \in {NoFile}
       \cup {[present |-> TRUE, size |-> s, path |-> p] : s \in FileSizes, p \in FilePaths}
  /\ fileExists = file.present
  /\ unlinkCalls = 0
  /\ pc = "start"
  /\ srcA = Idle
  /\ srcB = Idle
  /\ transcriptText = <<>>
  /\ speakerSegments = <<>>
  /\ called = {}
  /\ responses = <<>>
  /\ ServicesUnused

\* An early return: one response, nothing else touched.
Return(response) ==
  /\ pc' = "done"
  /\ Send(response)
  /\ UNCHANGED <<serviceVars, handler, env, file, fileExists, unlinkCalls, srcA, srcB,
                 transcriptText, speakerSegments, called>>

RespondAssemblyKeyMissing ==
  /\ pc = "start"
  /\ handler = "transcribeWithSpeakers"
  /\ ~env.assemblyKey
  /\ Return(Failure(500, Message("Assembly AI API key not configured", <<>>)))

RespondOpenAIKeyMissing ==
  /\ pc = "start"
  /\ handler = "transcribeWithSpeakers" => env.assemblyKey
  /\ ~env.openaiKey
  /\ Return(Failure(500, Message("OpenAI API key not configured", <<>>)))

RespondNoFile ==
  /\ pc = "start"
  /\ keysConfigured
  /\ ~file.present
  /\ Return(Failure(400, Message("No audio file uploaded", <<>>)))

RespondEmptyFile ==
  /\ pc = "start"
  /\ keysConfigured
  /\ file.present
  /\ file.size = 0
  /\ Return(Failure(400, Message("Uploaded file is empty", <<>>)))

RespondTooSmall ==
  /\ pc = "start"
  /\ keysConfigured
  /\ file.present
  /\ file.size # 0
  /\ file.size < minimumSize
  /\ Return(Failure(400,
       Message("Audio file too small - may be corrupted or contain no audio data", <<>>)))

RespondUnsupportedFormat ==
  /\ pc = "start"
  /\ keysConfigured
  /\ file.present
  /\ file.size # 0
  /\ file.size >= minimumSize
  /\ ~isSupportedFormat(fileExtension)
  /\ Return(Failure(400,
       Message("Unsupported file format: ", <<fileExtension, supportedFormats>>)))

-----------------------------------------------------------------------------
(* The two sources.  transcribeWithSpeakers starts both promises before it *)
(* awaits Promise.allSettled; transcribe awaits the translation alone.     *)

DispatchSources ==
  /\ pc = "start"
  /\ handler = "transcribeWithSpeakers"
  /\ keysConfigured
  /\ validFile
  /\ srcB' = [st |-> "uploading"]
  /\ srcA' = [st |-> "running"]
  /\ pc' = "awaiting"
  /\ UNCHANGED <<serviceVars, handler, env, file, fileExists, unlinkCalls, transcriptText,
                 speakerSegments, called, responses>>

DispatchTranslation ==
  /\ pc = "start"
  /\ handler = "transcribe"
  /\ keysConfigured
  /\ validFile
  /\ srcA' = [st |-> "running"]
  /\ pc' = "awaiting"
  /\ UNCHANGED <<serviceVars, handler, env, file, fileExists, unlinkCalls, srcB, transcriptText,
                 speakerSegments, called, responses>>

WhisperFulfils ==
  /\ srcA.st = "running"
  /\ \E v \in WhisperValues : srcA' = [st |-> "fulfilled", value |-> v]
  /\ UNCHANGED <<serviceVars, handler, env, file, fileExists, unlinkCalls, pc, srcB, transcriptText,
                 speakerSegments, called, responses>>

WhisperRejects ==
  /\ srcA.st = "running"
  /\ \E e \in WhisperErrors : srcA' = [st |-> "rejected", reason |-> e]
  /\ UNCHANGED <<serviceVars, handler, env, file, fileExists, unlinkCalls, pc, srcB, transcriptText,
                 speakerSegments, called, responses>>

AssemblyUploads ==
  /\ srcB.st = "uploading"
  /\ srcB' = [st |-> "transcribing"]
  /\ UNCHANGED <<serviceVars, handler, env, file, fileExists, unlinkCalls, pc, srcA, transcriptText,
                 speakerSegments, called, responses>>

AssemblyUploadFails ==
  /\ srcB.st = "uploading"
  /\ \E e \in UploadErrors : srcB' = [st |-> "rejected", reason |-> e]
  /\ UNCHANGED <<serviceVars, handler, env, file, fileExists, unlinkCalls, pc, srcA, transcriptText,
                 speakerSegments, called, responses>>

AssemblyTranscribes ==
  /\ srcB.st = "transcribing"
  /\ \E t \in Transcripts : srcB' = [st |-> "fulfilled", value |-> t]
  /\ UNCHANGED <<serviceVars, handler, env, file, fileExists, unlinkCalls, pc, srcA, transcriptText,
                 speakerSegments, called, responses>>

AssemblyTranscribeFails ==
  /\ srcB.st = "transcribing"
  /\ \E e \in TranscribeErrors : srcB' = [st |-> "rejected", reason |-> e]
  /\ UNCHANGED <<serviceVars, handler, env, file, fileExists, unlinkCalls, pc, srcA, transcriptText,
                 speakerSegments, called, responses>>

settled(src) == src.st \in {"fulfilled", "rejected"}


-----------------------------------------------------------------------------
(* transcribeWithSpeakers after Promise.allSettled: result extraction,     *)
(* branch selection, response; and its catch block.                        *)

\* transcriptText after lines 244-259.
extractText(openaiResult) ==
  IF openaiResult.st = "fulfilled" /\ Len(openaiResult.value) > 0
  THEN trim(openaiResult.value)
  ELSE <<>>

preserveUtterances(rawSegments) ==
  /\ validateSpeakerQuality(rawSegments).averageConfidence > PreserveConfidence
  /\ Len(rawSegments) <= PreserveMaxSegments

\* speakerSegments after lines 261-298.
extractSegments(assemblyResult) ==
  IF assemblyResult.st = "fulfilled" /\ assemblyResult.value.status = "completed"
  THEN LET assemblyTranscript == assemblyResult.value
           rawSegments == assemblyTranscript.utterances
       IN IF Len(rawSegments) > 0
          THEN IF preserveUtterances(rawSegments)
               THEN mapSeq(rawSegments,
                           LAMBDA segment :
                             Spread([speaker |-> normalizeSpeakerLabel(segment.speaker),
                                     preservedUtterance |-> TRUE], segment))
               ELSE optimizeSpeakerSegments(rawSegments)
          ELSE IF Len(trim(assemblyTranscript.text)) > 0
          THEN <<[speaker |-> <<"A">>,
                  text |-> trim(assemblyTranscript.text),
                  start |-> 0,
                  end |-> TextOnlyEndMs,
                  confidence |-> TextOnlyConfidence,
                  fallback |-> TRUE]>>
          ELSE <<>>
  ELSE <<>>

\* Whether lines 261-298 throw: normalizeSpeakerLabel is handed a speaker
\* that is not a string.
extractionThrows(assemblyResult) ==
  /\ assemblyResult.st = "fulfilled"
  /\ assemblyResult.value.status = "completed"
  /\ LET rawSegments == assemblyResult.value.utterances
         normalized ==
           IF preserveUtterances(rawSegments)
           THEN mapSeq(rawSegments, LAMBDA s : normalizeSpeakerLabel(s.speaker))
           ELSE mapSeq(optimizeLoop(sortByStart(rawSegments),
                         validateSpeakerQuality(sortByStart(rawSegments)).hasHighConfidenceSegments,
                         1, <<>>),
                       LAMBDA s : s.speaker)
     IN \E i \in 1..Len(normalized) : normalized[i] = TypeError

usesOptimizer(assemblyResult) ==
  /\ assemblyResult.st = "fulfilled"
  /\ assemblyResult.value.status = "completed"
  /\ Len(assemblyResult.value.utterances) > 0
  /\ ~preserveUtterances(assemblyResult.value.utterances)

\* The await of Promise.all instead of Promise.allSettled: over as soon as
\* one source rejects.
bothFulfilledOrOneRejected ==
  /\ pc = "awaiting"
  /\ handler = "transcribeWithSpeakers"
  /\ \/ srcA.st = "fulfilled" /\ srcB.st = "fulfilled"
     \/ srcA.st = "rejected"
     \/ srcB.st = "rejected"

bothSettled ==
  /\ pc = "awaiting"
  /\ handler = "transcribeWithSpeakers"
  /\ settled(srcA)
  /\ settled(srcB)

\* fs.unlinkSync(filePath) at line 239 succeeds and the extraction does not
\* throw: the handler goes on to select its branch.
Extracted ==
  /\ bothSettled
  /\ ~extractionThrows(srcB)
  /\ fileExists' = FALSE
  /\ unlinkCalls' = unlinkCalls + 1
  /\ transcriptText' = extractText(srcA)
  /\ speakerSegments' = extractSegments(srcB)
  /\ pc' = "done"
  /\ UNCHANGED <<serviceVars, handler, env, file, srcA, srcB>>

\* The branch selection of lines 309-346.
selectsHybrid(text, segments) == Len(text) > 0 /\ Len(segments) > 0

selectsWhisperOnly(text, segments) == ~selectsHybrid(text, segments) /\ Len(text) > 0

selectsAssemblyOnly(text, segments) ==
  ~selectsHybrid(text, segments) /\ Len(text) = 0 /\ Len(segments) > 0

selectsTotalFailure(text, segments) ==
  ~selectsHybrid(text, segments) /\ Len(text) = 0 /\ Len(segments) = 0

optimizerCall == IF usesOptimizer(srcB) THEN {"optimizeSpeakerSegments"} ELSE {}

countSpeakers(segments) == Len(uniqueOf(mapSeq(segments, LAMBDA s : s.speaker)))

hybridResponse(text, segments) ==
  LET alignedSpeakers == alignWhisperWithSpeakers(text, segments)
  IN Success(text, alignedSpeakers,
             Message("Hybrid success! speaker(s) detected by Assembly AI",
                     <<countSpeakers(alignedSpeakers)>>))

RespondHybrid ==
  /\ Extracted
  /\ selectsHybrid(transcriptText', speakerSegments')
  /\ Send(hybridResponse(transcriptText', speakerSegments'))
  /\ called' = optimizerCall \cup {"alignWhisperWithSpeakers"}

RespondWhisperOnly ==
  /\ Extracted
  /\ selectsWhisperOnly(transcriptText', speakerSegments')
  /\ LET fallbackSpeakers == createFallbackSpeakerDetection(transcriptText')
     IN Send(Success(transcriptText', fallbackSpeakers,
                     IF Len(fallbackSpeakers) > 0
                     THEN Message("Whisper transcription successful with fallback speaker detection",
                                  <<Len(fallbackSpeakers)>>)
                     ELSE Message("Whisper transcription successful, but speaker detection failed",
                                  <<>>)))
  /\ called' = optimizerCall \cup {"createFallbackSpeakerDetection"}

RespondAssemblyOnly ==
  /\ Extracted
  /\ selectsAssemblyOnly(transcriptText', speakerSegments')
  /\ LET assemblyText == join(mapSeq(speakerSegments', LAMBDA s : s.text), <<" ">>)
     IN Send(Success(assemblyText, speakerSegments',
                     Message("Speaker detection successful, but Whisper transcription failed",
                             <<>>)))
  /\ called' = optimizerCall

\* The total-failure branch with an error built from the two rejection
\* reasons.
RespondTotalFailureWithReasons ==
  /\ Extracted
  /\ selectsTotalFailure(transcriptText', speakerSegments')
  /\ Send(Failure(500,
       Message("Both Whisper transcription and Assembly AI speaker detection failed: ",
               <<IF srcA.st = "rejected" THEN srcA.reason.message ELSE "empty",
                 IF srcB.st = "rejected" THEN srcB.reason.message ELSE "empty">>)))
  /\ called' = optimizerCall

RespondTotalFailure ==
  /\ Extracted
  /\ selectsTotalFailure(transcriptText', speakerSegments')
  /\ Send(Failure(500,
       Message("Both Whisper transcription and Assembly AI speaker detection failed", <<>>)))
  /\ called' = optimizerCall

\* fs.unlinkSync(filePath) at line 239 throwing outside any try block: the
\* handler ends without a response.
UnlinkFailureEscapes ==
  /\ bothSettled
  /\ unlinkCalls' = unlinkCalls + 1
  /\ pc' = "done"
  /\ UNCHANGED <<serviceVars, handler, env, file, fileExists, srcA, srcB, transcriptText,
                 speakerSegments, called, responses>>

\* fs.unlinkSync(filePath) at line 239 throws: the catch block finds the file
\* still there, tries to unlink it again (which may fail again and is then
\* only logged) and answers with the error.
CatchUnlinkFailure ==
  /\ bothSettled
  /\ \E removed \in BOOLEAN : fileExists' = ~removed
  /\ unlinkCalls' = unlinkCalls + 2
  /\ Send(catchWithSpeakers(UnlinkError))
  /\ pc' = "done"
  /\ UNCHANGED <<serviceVars, handler, env, file, srcA, srcB, transcriptText, speakerSegments, called>>

\* The extraction throws after the file was unlinked: the catch block finds
\* no file and answers with the error.
CatchExtractionFailure ==
  /\ bothSettled
  /\ extractionThrows(srcB)
  /\ fileExists' = FALSE
  /\ unlinkCalls' = unlinkCalls + 1
  /\ transcriptText' = extractText(srcA)
  /\ Send(catchWithSpeakers(NullSpeakerError))
  /\ pc' = "done"
  /\ called' = optimizerCall
  /\ UNCHANGED <<serviceVars, handler, env, file, srcA, srcB, speakerSegments>>

-----------------------------------------------------------------------------
(* transcribe after the translation settles.                               *)

translationSettled ==
  /\ pc = "awaiting"
  /\ handler = "transcribe"
  /\ settled(srcA)

TranscribeResponds ==
  /\ translationSettled
  /\ srcA.st = "fulfilled"
  /\ fileExists' = FALSE
  /\ unlinkCalls' = unlinkCalls + 1
  /\ IF Len(srcA.value) = 0
     THEN /\ Send(Failure(500, Message("Invalid response from transcription service", <<>>)))
          /\ UNCHANGED transcriptText
     ELSE /\ transcriptText' = trim(srcA.value)
          /\ Send([status |-> 200, success |-> TRUE, text |-> transcriptText',
                   message |-> IF Len(transcriptText') > 0
                               THEN Message("Transcription successful", <<>>)
                               ELSE Message("No speech detected", <<>>)])
  /\ pc' = "done"
  /\ UNCHANGED <<serviceVars, handler, env, file, srcA, srcB, speakerSegments, called>>

TranscribeCatchesUnlinkFailure ==
  /\ translationSettled
  /\ srcA.st = "fulfilled"
  /\ \E removed \in BOOLEAN : fileExists' = ~removed
  /\ unlinkCalls' = unlinkCalls + 2
  /\ Send(catchTranscribe(UnlinkError))
  /\ pc' = "done"
  /\ UNCHANGED <<serviceVars, handler, env, file, srcA, srcB, transcriptText, speakerSegments, called>>

TranscribeCatchesRejection ==
  /\ translationSettled
  /\ srcA.st = "rejected"
  /\ \E removed \in BOOLEAN : fileExists' = ~removed
  /\ unlinkCalls' = unlinkCalls + 1
  /\ Send(catchTranscribe(srcA.reason))
  /\ pc' = "done"
  /\ UNCHANGED <<serviceVars, handler, env, file, srcA, srcB, transcriptText, speakerSegments, called>>

Next ==
  \/ RespondAssemblyKeyMissing
  \/ RespondOpenAIKeyMissing
  \/ RespondNoFile
  \/ RespondEmptyFile
  \/ RespondTooSmall
  \/ RespondUnsupportedFormat
  \/ DispatchSources
  \/ DispatchTranslation
  \/ WhisperFulfils
  \/ WhisperRejects
  \/ AssemblyUploads
  \/ AssemblyUploadFails
  \/ AssemblyTranscribes
  \/ AssemblyTranscribeFails
  \/ RespondHybrid
  \/ RespondWhisperOnly
  \/ RespondAssemblyOnly
  \/ RespondTotalFailure
  \/ CatchUnlinkFailure
  \/ CatchExtractionFailure
  \/ TranscribeResponds
  \/ TranscribeCatchesUnlinkFailure
  \/ TranscribeCatchesRejection

Spec == Init /\ [][Next]_vars


-----------------------------------------------------------------------------
(* Properties of transcribeWithSpeakers and transcribe.                    *)

withSpeakers == handler = "transcribeWithSpeakers"

responded == pc = "done" /\ Len(responses) = 1

response == responses[1]

dispatched == srcA.st # "idle"

whisperRunning == srcA.st = "running"

assemblyRunning == srcB.st \in {"uploading", "transcribing"}

\* C1: in a run of transcribeWithSpeakers that passes validation both
\* sources are started; while the handler awaits, a source that has not
\* settled can still settle whatever happened to the other (a rejection of
\* one neither settles nor stops the other); and the handler leaves the await
\* and selects its branch only when both sources have settled.
C1_BothSettleBeforeBranch ==
  withSpeakers =>
    /\ pc = "awaiting" => srcA.st # "idle" /\ srcB.st # "idle"
    /\ pc = "awaiting" /\ whisperRunning => ENABLED WhisperFulfils
    /\ pc = "awaiting" /\ assemblyRunning =>
         ENABLED (AssemblyUploads \/ AssemblyTranscribes)
    /\ pc = "done" /\ dispatched => settled(srcA) /\ settled(srcB)

C1_Witness ==
  /\ withSpeakers
  /\ responded
  /\ srcB.st = "rejected"
  /\ srcA.st = "fulfilled"
  /\ response.success


\* Whether the handler, all its awaited promises settled, has a way on: the
\* unlink succeeds and either the extraction throws into the catch block or
\* one of the four branches is selected.
continues ==
  \/ /\ bothSettled
     /\ \/ extractionThrows(srcB)
        \/ selectsHybrid(extractText(srcA), extractSegments(srcB))
        \/ selectsWhisperOnly(extractText(srcA), extractSegments(srcB))
        \/ selectsAssemblyOnly(extractText(srcA), extractSegments(srcB))
        \/ selectsTotalFailure(extractText(srcA), extractSegments(srcB))
  \/ translationSettled

\* C2: every invocation ends having sent exactly one response: at no point
\* have two responses been sent; a handler that has ended has sent exactly
\* one; and a handler that has not ended has sent none and is never stuck:
\* it can return or dispatch, or a pending source can settle, or it goes on
\* after its await, whatever the two sources did and also when the unlink of
\* the temporary file or the extraction of the segments throws.
C2_ExactlyOneResponse ==
  /\ Len(responses) <= 1
  /\ pc = "done" => Len(responses) = 1
  /\ pc # "done" =>
       /\ Len(responses) = 0
       /\ \/ ENABLED (RespondAssemblyKeyMissing \/ RespondOpenAIKeyMissing \/ RespondNoFile
                       \/ RespondEmptyFile \/ RespondTooSmall \/ RespondUnsupportedFormat
                       \/ DispatchSources \/ DispatchTranslation)
          \/ ENABLED (WhisperFulfils \/ AssemblyUploads \/ AssemblyTranscribes)
          \/ continues

C2_Witness ==
  /\ withSpeakers
  /\ responded
  /\ unlinkCalls = 2
  /\ ~response.success

\* C3: on every exit path of transcribeWithSpeakers the uploaded temporary
\* file has been deleted by exactly one unlink call once the response is
\* sent: after validation failures, on every success branch, when both
\* sources fail and when a later stage throws.
C3_FileDeletedExactlyOnce ==
  withSpeakers /\ responded /\ file.present => ~fileExists /\ unlinkCalls = 1

\* What Source A and Source B contributed.
whisperUsable == srcA.st = "fulfilled" /\ Len(trim(srcA.value)) > 0

assemblyUsable == ~extractionThrows(srcB) /\ Len(extractSegments(srcB)) > 0

\* C4: whenever at least one source settled with usable output (non-empty
\* Source A text or a non-empty Source B segment list) the response has
\* success = true; a response with success = false after the sources ran is
\* produced only when both failed.
C4_PartialSuccessPreferred ==
  withSpeakers /\ responded /\ dispatched =>
    /\ whisperUsable \/ assemblyUsable => response.success
    /\ ~response.success => ~whisperUsable /\ ~assemblyUsable

\* C4, as far as the code goes: the same, for the runs in which neither the
\* unlink at line 239 nor the extraction throws.
C4_WhenNothingThrows ==
  withSpeakers /\ responded /\ dispatched /\ unlinkCalls = 1 /\ ~extractionThrows(srcB) =>
    /\ whisperUsable \/ assemblyUsable => response.success
    /\ ~response.success => ~whisperUsable /\ ~assemblyUsable

bothRejected == srcA.st = "rejected" /\ srcB.st = "rejected"

inMessage(reason, message) ==
  \E i \in 1..Len(message.args) : message.args[i] = reason.message

assemblyFailedEntirely ==
  \/ srcB.st = "rejected"
  \/ srcB.st = "fulfilled" /\ srcB.value.status # "completed"

\* C6: when Source B fails entirely and Source A returns non-empty text the
\* response has success = true, text = Source A's (trimmed) text and
\* speakers = createFallbackSpeakerDetection of that text, every segment of
\* which carries fallback = true and a method tag.
C6_FallbackSpeakers ==
  withSpeakers /\ responded /\ assemblyFailedEntirely /\ whisperUsable =>
    /\ response.success
    /\ response.text = trim(srcA.value)
    /\ response.speakers = createFallbackSpeakerDetection(trim(srcA.value))
    /\ \A i \in 1..Len(response.speakers) :
         /\ "fallback" \in DOMAIN response.speakers[i]
         /\ response.speakers[i].fallback = TRUE
         /\ "method" \in DOMAIN response.speakers[i]

\* C7: when Source A fails and Source B yields a non-empty segment list the
\* response has success = true, speakers = Source B's segments as
\* extracted, text = their texts joined by single spaces, and neither the
\* aligner nor the fallback synthesizer was called.
C7_AssemblyOnly ==
  withSpeakers /\ responded /\ srcA.st = "rejected" /\ assemblyUsable =>
    /\ response.success
    /\ response.speakers = extractSegments(srcB)
    /\ response.text = join(mapSeq(extractSegments(srcB), LAMBDA s : s.text), <<" ">>)
    /\ "alignWhisperWithSpeakers" \notin called
    /\ "createFallbackSpeakerDetection" \notin called

\* C6 and C7 in the runs in which the unlink at line 239 succeeds: the
\* whisper-only and the assembly-only branch answer as described.
C6_WhenDeletionSucceeds ==
  withSpeakers /\ responded /\ assemblyFailedEntirely /\ whisperUsable /\ unlinkCalls = 1 =>
    /\ response.success
    /\ response.text = trim(srcA.value)
    /\ response.speakers = createFallbackSpeakerDetection(trim(srcA.value))
    /\ \A i \in 1..Len(response.speakers) :
         /\ "fallback" \in DOMAIN response.speakers[i]
         /\ response.speakers[i].fallback = TRUE
         /\ "method" \in DOMAIN response.speakers[i]

C7_WhenDeletionSucceeds ==
  withSpeakers /\ responded /\ srcA.st = "rejected" /\ assemblyUsable /\ unlinkCalls = 1 =>
    /\ response.success
    /\ response.speakers = extractSegments(srcB)
    /\ response.text = join(mapSeq(extractSegments(srcB), LAMBDA s : s.text), <<" ">>)
    /\ "alignWhisperWithSpeakers" \notin called
    /\ "createFallbackSpeakerDetection" \notin called


-----------------------------------------------------------------------------
(* The hybrid branch on its own (lines 309-318): the handler has extracted *)
(* a non-empty transcriptText and non-empty speakerSegments and calls      *)
(* alignWhisperWithSpeakers.  The texts are built from a few sentences,    *)
(* the utterances are contiguous and confident enough to be preserved.     *)

MaxSentences == 4

MaxSegments == 4

BodyYes ==
  <<"Y","e","s">>

BodyHeadache ==
  <<"I"," ","h","a","v","e"," ","a"," ","h","e","a","d","a","c","h","e">>

BodyDoctor ==
  <<"D","o","c","t","o","r",","," ","I"," ","a","m"," ","h","a","v","i","n","g"," ","p","a","i",
  "n">>

SentenceBodies == {BodyYes, BodyHeadache, BodyDoctor}

RECURSIVE textsOf(_)
textsOf(k) ==
  IF k = 1 THEN {body \o <<".">> : body \in SentenceBodies}
  ELSE {body \o <<".", " ">> \o rest : body \in SentenceBodies, rest \in textsOf(k - 1)}

AlignTexts == UNION {textsOf(k) : k \in 1..MaxSentences}

Durations == {0, 1000}

RECURSIVE utterancesOf(_)
utterancesOf(n) ==
  IF n = 0 THEN {<<>>}
  ELSE {Append(list,
               Utterance(IF n % 2 = 1 THEN <<"A">> ELSE <<"B">>, TextHello,
                         IF n = 1 THEN 0 ELSE list[n - 1].end,
                         (IF n = 1 THEN 0 ELSE list[n - 1].end) + d, 90)) :
          list \in utterancesOf(n - 1), d \in Durations}

AlignUtterances == UNION {utterancesOf(n) : n \in 1..MaxSegments}

AlignInit ==
  /\ handler = "transcribeWithSpeakers"
  /\ env = [assemblyKey |-> TRUE, openaiKey |-> TRUE]
  /\ file = [present |-> TRUE, size |-> 5000, path |-> PathWav]
  /\ fileExists = FALSE
  /\ unlinkCalls = 1
  /\ pc = "hybrid"
  /\ \E text \in AlignTexts : srcA = [st |-> "fulfilled", value |-> text]
  /\ \E utterances \in AlignUtterances :
       srcB = [st |-> "fulfilled", value |-> Transcript("completed", utterances, TextHello)]
  /\ transcriptText = extractText(srcA)
  /\ speakerSegments = extractSegments(srcB)
  /\ called = {}
  /\ responses = <<>>
  /\ ServicesUnused

HybridResponds ==
  /\ pc = "hybrid"
  /\ selectsHybrid(transcriptText, speakerSegments)
  /\ Send(hybridResponse(transcriptText, speakerSegments))
  /\ called' = {"alignWhisperWithSpeakers"}
  /\ pc' = "done"
  /\ UNCHANGED <<serviceVars, handler, env, file, fileExists, unlinkCalls, srcA, srcB,
                 transcriptText, speakerSegments>>

AlignSpec == AlignInit /\ [][HybridResponds]_vars

\* C8: intake validation, for a request that gets to it (the API keys the
\* handler needs are configured and a file was uploaded): an empty file, a
\* file below the handler's minimum size, or one whose extension is not one
\* of flac, m4a, mp3, mp4, mpeg, mpga, oga, ogg, wav, webm is answered with
\* status 400 and the error naming that defect, and neither source is
\* started; a file passing the three checks is dispatched to the sources.
claimedFormats ==
  {<<"f","l","a","c">>,
   <<"m","4","a">>,
   <<"m","p","3">>,
   <<"m","p","4">>,
   <<"m","p","e","g">>,
   <<"m","p","g","a">>,
   <<"o","g","a">>,
   <<"o","g","g">>,
   <<"w","a","v">>,
   <<"w","e","b","m">>}

rejectedAs(defect) ==
  /\ responded
  /\ response.status = 400
  /\ ~response.success
  /\ response.error.template = defect
  /\ srcA = Idle
  /\ srcB = Idle

wordsOf(text) ==
  SelectSeq(mapSeq(split(trim(text), Whitespace),
                   LAMBDA w : SelectSeq(w, LAMBDA c : c \notin SentenceDelims)),
            LAMBDA w : Len(w) > 0)

\* C9: whenever Source A succeeded and the aligner ran, the words of the
\* output segments' texts, concatenated in segment order, are exactly the
\* words of Source A's text, whichever alignment strategy was used.
C9_NoSilentTruncation ==
  withSpeakers /\ responded /\ "alignWhisperWithSpeakers" \in called =>
    wordsOf(join(mapSeq(response.speakers, LAMBDA s : s.text), <<" ">>))
      = wordsOf(transcriptText)

\* C10: for every non-empty Source A text and a list of exactly one
\* segment, alignWhisperWithSpeakers returns exactly one segment, whose text
\* is the whole text and whose speaker, start, end and confidence are those
\* of the input segment.
C10_SingleSegmentVerbatim ==
  responded /\ "alignWhisperWithSpeakers" \in called /\ Len(speakerSegments) = 1 =>
    /\ Len(response.speakers) = 1
    /\ response.speakers[1].text = transcriptText
    /\ response.speakers[1].speaker = speakerSegments[1].speaker
    /\ response.speakers[1].start = speakerSegments[1].start
    /\ response.speakers[1].end = speakerSegments[1].end
    /\ response.speakers[1].confidence = speakerSegments[1].confidence

C10_Witness ==
  /\ responded
  /\ "alignWhisperWithSpeakers" \in called
  /\ Len(speakerSegments) = 1
  /\ Len(split(transcriptText, SentenceDelims)) > 2
  /\ response.speakers[1].text = transcriptText

\* C11: when the Source A text has as many sentences (the fragments between
\* sentence delimiters that are longer than three characters) as there are
\* segments, at least two, and the monologue heuristic does not fire, the
\* aligner returns the segments in their order, segment i with the text of
\* sentence i and its own speaker, start, end and confidence, tagged
\* one-to-one.
C11_OneToOne ==
  LET sentences == whisperSentencesOf(transcriptText)
      N == Len(speakerSegments)
  IN responded /\ "alignWhisperWithSpeakers" \in called /\ N >= 2
       /\ Len(sentences) = N
       /\ ~detectPatientMonologue(transcriptText, speakerSegments) =>
       /\ Len(response.speakers) = N
       /\ \A i \in 1..N :
            /\ response.speakers[i].text = sentences[i]
            /\ response.speakers[i].speaker = speakerSegments[i].speaker
            /\ response.speakers[i].start = speakerSegments[i].start
            /\ response.speakers[i].end = speakerSegments[i].end
            /\ response.speakers[i].confidence = speakerSegments[i].confidence
            /\ response.speakers[i].mappingMethod = "one-to-one"

C11_Witness ==
  /\ responded
  /\ "alignWhisperWithSpeakers" \in called
  /\ Len(speakerSegments) = 3
  /\ Len(whisperSentencesOf(transcriptText)) = 3
  /\ response.speakers[1].text = BodyDoctor
  /\ response.speakers[2].text = BodyHeadache
  /\ response.speakers[3].mappingMethod = "one-to-one"

\* The words handed to the output segments, in segment order.
RECURSIVE assignedWords(_)
assignedWords(segments) ==
  IF Len(segments) = 0 THEN <<>>
  ELSE SelectSeq(split(segments[1].text, Whitespace), LAMBDA w : Len(w) > 0)
       \o assignedWords(Tail(segments))

contentProportionalUsed ==
  /\ responded
  /\ "alignWhisperWithSpeakers" \in called
  /\ Len(speakerSegments) >= 2
  /\ ~detectPatientMonologue(transcriptText, speakerSegments)
  /\ Len(whisperSentencesOf(transcriptText)) < Len(speakerSegments)

\* C12: whenever contentBasedAlignment is used (fewer sentences than
\* segments, no monologue), the words assigned to the output segments, taken
\* in segment order, are exactly the whitespace-separated words of Source
\* A's text in their order, so their number is the number of words of the
\* text: none is dropped, none is assigned twice; this includes segments of
\* zero duration and a zero total span.
C12_WordsConserved ==
  contentProportionalUsed =>
    /\ Len(response.speakers) = Len(speakerSegments)
    /\ \A i \in 1..Len(response.speakers) :
         response.speakers[i].mappingMethod = "content-proportional"
    /\ assignedWords(response.speakers) = split(trim(transcriptText), Whitespace)
    /\ Len(assignedWords(response.speakers)) = Len(split(trim(transcriptText), Whitespace))

C12_Witness ==
  /\ contentProportionalUsed
  /\ Len(speakerSegments) = 3
  /\ speakerSegments[3].end = speakerSegments[1].start
  /\ Len(split(trim(transcriptText), Whitespace)) > 3
  /\ response.speakers[3].text = transcriptText

C12_WitnessSpread ==
  /\ contentProportionalUsed
  /\ Len(speakerSegments) = 3
  /\ speakerSegments[2].end = speakerSegments[2].start
  /\ Len(response.speakers[1].text) > 0
  /\ Len(response.speakers[3].text) > 0

-----------------------------------------------------------------------------
(* normalizeSpeakerLabel on its own: Source B answers with one confident   *)
(* utterance whose speaker is a raw label, Source A has failed, and the    *)
(* handler extracts the segment (line 279) and answers from the            *)
(* assembly-only branch.                                                   *)

MaxLabelLen == 2

LabelChars == {"a", "B", "b", "c", "C", "0", "1", "2", "x", "_"}

RECURSIVE labelsOf(_)
labelsOf(n) ==
  IF n = 0 THEN {<<>>}
  ELSE {<<c>> \o rest : c \in LabelChars, rest \in labelsOf(n - 1)}

RawLabels == UNION {labelsOf(n) : n \in 1..MaxLabelLen}

LabelInit ==
  /\ handler = "transcribeWithSpeakers"
  /\ env = [assemblyKey |-> TRUE, openaiKey |-> TRUE]
  /\ file = [present |-> TRUE, size |-> 5000, path |-> PathWav]
  /\ fileExists = TRUE
  /\ unlinkCalls = 0
  /\ pc = "awaiting"
  /\ srcA = [st |-> "rejected", reason |-> Error(0, "ECONNRESET", "Connection error.")]
  /\ \E label \in RawLabels :
       srcB = [st |-> "fulfilled",
               value |-> Transcript("completed",
                                    <<Utterance(label, TextHello, 0, 2000, 90)>>,
                                    TextHello)]
  /\ transcriptText = <<>>
  /\ speakerSegments = <<>>
  /\ called = {}
  /\ responses = <<>>
  /\ ServicesUnused

LabelSpec == LabelInit /\ [][RespondAssemblyOnly]_vars

\* normalizeSpeakerLabel of the older copy of the controller, which has a
\* third rule.
normalizeSpeakerLabelWithC(speaker) ==
  IF speaker = NullValue THEN TypeError
  ELSE IF includes(toLowerCase(speaker), <<"a">>) \/ speaker = <<"0">> THEN <<"A">>
  ELSE IF includes(toLowerCase(speaker), <<"b">>) \/ speaker = <<"1">> THEN <<"B">>
  ELSE IF includes(toLowerCase(speaker), <<"c">>) \/ speaker = <<"2">> THEN <<"C">>
  ELSE toUpperCase(speaker)

rawLabel == srcB.value.utterances[1].speaker

labelled ==
  /\ responded
  /\ srcB.st = "fulfilled"
  /\ Len(srcB.value.utterances) = 1
  /\ Len(response.speakers) = 1
  /\ response.speakers[1].speaker = normalizeSpeakerLabel(rawLabel)

claimedLabel(x) ==
  IF includes(toLowerCase(x), <<"a">>) \/ x = <<"0">> THEN <<"A">>
  ELSE IF includes(toLowerCase(x), <<"b">>) \/ x = <<"1">> THEN <<"B">>
  ELSE IF includes(toLowerCase(x), <<"c">>) \/ x = <<"2">> THEN <<"C">>
  ELSE toUpperCase(x)

\* C14: the label of the segment is A for a raw label containing "a" or
\* equal to "0", B for one containing "b" or equal to "1", C for one
\* containing "c" or equal to "2", and the raw label in upper case
\* otherwise; a raw label containing "b" gives B and the raw label "2"
\* gives C.
C14_LabelRules ==
  labelled =>
    /\ response.speakers[1].speaker = claimedLabel(rawLabel)
    /\ includes(rawLabel, <<"b">>) => response.speakers[1].speaker = <<"B">>
    /\ rawLabel = <<"2">> => response.speakers[1].speaker = <<"C">>

\* C14, the rules the code has: A, B, or the upper case.
C14_TwoRules ==
  labelled =>
    /\ includes(toLowerCase(rawLabel), <<"a">>) \/ rawLabel = <<"0">>
         => response.speakers[1].speaker = <<"A">>
    /\ ~includes(toLowerCase(rawLabel), <<"a">>) /\ rawLabel # <<"0">>
         /\ (includes(toLowerCase(rawLabel), <<"b">>) \/ rawLabel = <<"1">>)
         => response.speakers[1].speaker = <<"B">>
    /\ rawLabel = <<"2">> => response.speakers[1].speaker = <<"2">>

-----------------------------------------------------------------------------
(* analyzeVoicePatterns on its own: Source B answers with up to            *)
(* MaxDetectSegments utterances of speaker A, at most one of them of       *)
(* speaker B, all of confidence 0.65 (so the handler takes the optimizer,  *)
(* which merges nothing and runs the analysis), evenly spaced; Source A    *)
(* has failed.                                                             *)

MaxDetectSegments == 10

DetectGaps == {500, 2000}

DetectConfidences == {35, 65}

DetectTexts == {TextHurts, TextHeadache}

detectUtterances(n, odd, gap, oddConfidence, text) ==
  [i \in 1..n |->
     Utterance(IF i = odd THEN <<"B">> ELSE <<"A">>, text,
               (i - 1) * (1000 + gap), (i - 1) * (1000 + gap) + 1000,
               IF i = odd THEN oddConfidence ELSE 65)]

DetectInit ==
  /\ handler = "transcribeWithSpeakers"
  /\ env = [assemblyKey |-> TRUE, openaiKey |-> TRUE]
  /\ file = [present |-> TRUE, size |-> 5000, path |-> PathWav]
  /\ fileExists = TRUE
  /\ unlinkCalls = 0
  /\ pc = "awaiting"
  /\ srcA = [st |-> "rejected", reason |-> Error(0, "ECONNRESET", "Connection error.")]
  /\ \E n \in 1..MaxDetectSegments, gap \in DetectGaps :
       \E odd \in 0..n, oddConfidence \in DetectConfidences, text \in DetectTexts :
         srcB = [st |-> "fulfilled",
                 value |-> Transcript("completed",
                                      detectUtterances(n, odd, gap, oddConfidence, text),
                                      TextHello)]
  /\ transcriptText = <<>>
  /\ speakerSegments = <<>>
  /\ called = {}
  /\ responses = <<>>
  /\ ServicesUnused

DetectSpec == DetectInit /\ [][RespondAssemblyOnly]_vars

\* How many of Source B's utterances are of the speaker.
utterancesOfSpeaker(sp) ==
  Cardinality({i \in 1..Len(srcB.value.utterances) : srcB.value.utterances[i].speaker = sp})

\* The optimizer has declared a single speaker, the primary one being sp.
declaredSingle(sp) ==
  \A i \in 1..Len(response.speakers) :
    /\ "singleSpeakerDetected" \in DOMAIN response.speakers[i]
    /\ response.speakers[i].singleSpeakerDetected = TRUE
    /\ response.speakers[i].speaker = sp

analysed ==
  /\ responded
  /\ "optimizeSpeakerSegments" \in called
  /\ Len(response.speakers) = Len(srcB.value.utterances)

\* C15: when one speaker has at least 9 of every 10 segments of a list of at
\* least two, analyzeVoicePatterns declares a single speaker and names that
\* speaker as the primary one.
C15_Dominance ==
  analysed /\ Len(srcB.value.utterances) >= 2 =>
    \A sp \in {<<"A">>, <<"B">>} :
      utterancesOfSpeaker(sp) * 10 >= 9 * Len(srcB.value.utterances) => declaredSingle(sp)

\* C15, the dominance test the code has: a share above 95 percent.
C15_DominanceAbove95 ==
  analysed /\ Len(srcB.value.utterances) >= 2 =>
    \A sp \in {<<"A">>, <<"B">>} :
      utterancesOfSpeaker(sp) * 100 > DominancePercent * Len(srcB.value.utterances)
        => declaredSingle(sp)

\* C15: nine of ten segments of one speaker, and no single speaker declared.
C15_NineOfTenUndeclared ==
  /\ analysed
  /\ Len(srcB.value.utterances) = 10
  /\ utterancesOfSpeaker(<<"A">>) = 9
  /\ \A i \in 1..10 : "singleSpeakerDetected" \notin DOMAIN response.speakers[i]

-----------------------------------------------------------------------------
(* optimizeSpeakerSegments on its own (the call of line 283): Source B's   *)
(* utterances are two utterances of one raw speaker label.                 *)

RawSpeakers == {<<"A">>, <<"a">>, <<"0">>, <<"B">>, <<"1">>}

MergeGaps == {0 - 1500, 0, 500, 1999, 2000}

MergeConfidences == {70, 80, 90}

MergeDurations == {500, 1000}

OptimizeInit ==
  /\ handler = "transcribeWithSpeakers"
  /\ env = [assemblyKey |-> TRUE, openaiKey |-> TRUE]
  /\ file = [present |-> TRUE, size |-> 5000, path |-> PathWav]
  /\ fileExists = FALSE
  /\ unlinkCalls = 1
  /\ pc = "optimizing"
  /\ srcA = [st |-> "rejected", reason |-> Error(0, "ECONNRESET", "Connection error.")]
  /\ \E sp \in RawSpeakers, gap \in MergeGaps, d \in MergeDurations :
       \E c1 \in MergeConfidences, c2 \in MergeConfidences :
         srcB = [st |-> "fulfilled",
                 value |-> Transcript("completed",
                             <<Utterance(sp, TextHeadache, 0, 2000, c1),
                               Utterance(sp, TextStarted, 2000 + gap, 2000 + gap + d, c2)>>,
                             TextHello)]
  /\ transcriptText = <<>>
  /\ speakerSegments = <<>>
  /\ called = {}
  /\ responses = <<>>
  /\ ServicesUnused

Optimizes ==
  /\ pc = "optimizing"
  /\ speakerSegments' = optimizeSpeakerSegments(srcB.value.utterances)
  /\ called' = {"optimizeSpeakerSegments"}
  /\ pc' = "optimized"
  /\ UNCHANGED <<serviceVars, handler, env, file, fileExists, unlinkCalls, srcA, srcB, transcriptText,
                 responses>>

OptimizeSpec == OptimizeInit /\ [][Optimizes]_vars

firstUtterance == srcB.value.utterances[1]

secondUtterance == srcB.value.utterances[2]

\* The two utterances meet the merge conditions of the same-speaker rule.
mergeable ==
  /\ pc = "optimized"
  /\ firstUtterance.speaker = secondUtterance.speaker
  /\ secondUtterance.start - firstUtterance.end < ShortGapMs
  /\ firstUtterance.confidence > ReasonableConfidence
  /\ secondUtterance.confidence > ReasonableConfidence

mergedIntoOne ==
  /\ Len(speakerSegments) = 1
  /\ speakerSegments[1].start = firstUtterance.start
  /\ speakerSegments[1].end >= firstUtterance.end
  /\ speakerSegments[1].end >= secondUtterance.end
  /\ speakerSegments[1].text = firstUtterance.text \o <<" ">> \o secondUtterance.text
  /\ speakerSegments[1].confidence
       = IF firstUtterance.confidence >= secondUtterance.confidence
         THEN firstUtterance.confidence ELSE secondUtterance.confidence

\* C16: two adjacent utterances of the same speaker, neither of them noise,
\* with a gap below the gap threshold and both confidences above the
\* reasonable-confidence threshold, come out of optimizeSpeakerSegments as
\* one segment: it starts where the first starts, ends no earlier than
\* either ends, its text is the two texts joined by one space and its
\* confidence is the larger of the two; whatever the raw form of the label.
C16_MergeSameSpeaker ==
  mergeable => mergedIntoOne

\* C16, as far as the code goes: the same when the raw label is already the
\* canonical one and the second utterance does not end before the first.
C16_MergeCanonicalLabel ==
  mergeable /\ firstUtterance.speaker \in {<<"A">>, <<"B">>}
    /\ secondUtterance.end >= firstUtterance.end
    => mergedIntoOne

\* C16: utterances of a raw label that is not canonical, 500 ms apart, with
\* confidences 0.8 and 0.9, left as two segments.
C16_RawLabelNotMerged ==
  /\ mergeable
  /\ firstUtterance.speaker = <<"0">>
  /\ secondUtterance.start - firstUtterance.end = 500
  /\ firstUtterance.confidence = 80
  /\ secondUtterance.confidence = 90
  /\ Len(speakerSegments) = 2

\* C17: when the monologue heuristic fires (patient score at least 2 and
\* above the doctor score, a patient opening, more than three segments) the
\* aligner returns exactly one segment, from the smallest start to the
\* largest end of the input segments, with the fixed patient label B and
\* the whole Source A text as its text.
C17_MonologueOverride ==
  responded /\ "alignWhisperWithSpeakers" \in called
    /\ detectPatientMonologue(transcriptText, speakerSegments) =>
    /\ Len(speakerSegments) > MonologueMinSegments
    /\ Len(response.speakers) = 1
    /\ \A i \in 1..Len(speakerSegments) :
         /\ response.speakers[1].start <= speakerSegments[i].start
         /\ response.speakers[1].end >= speakerSegments[i].end
    /\ \E i \in 1..Len(speakerSegments) :
         response.speakers[1].start = speakerSegments[i].start
    /\ \E i \in 1..Len(speakerSegments) :
         response.speakers[1].end = speakerSegments[i].end
    /\ response.speakers[1].speaker = <<"B">>
    /\ response.speakers[1].text = transcriptText
    /\ response.speakers[1].mappingMethod = "patient-monologue"

C17_Witness ==
  /\ responded
  /\ "alignWhisperWithSpeakers" \in called
  /\ detectPatientMonologue(transcriptText, speakerSegments)
  /\ Len(speakerSegments) = 4
  /\ speakerSegments[4].end = 4000
  /\ Len(response.speakers) = 1
  /\ response.speakers[1].start = 0
  /\ response.speakers[1].end = 4000
  /\ response.speakers[1].text = transcriptText
  /\ Len(whisperSentencesOf(transcriptText)) = 3

\* C18, what the handlers' own code shows: the translation is requested
\* once per invocation; a source that has settled is never started again,
\* whatever it was rejected with.  Attempts made inside the client library
\* are not part of this state.
C18_NoSecondRequest ==
  [][settled(srcA) => srcA' = srcA]_vars

\* C19: every segment the aligner has returned carries the three provenance
\* flags whisperBased, assemblyAI and mappingMethod, whichever strategy
\* produced it.
C19_ProvenanceFlags ==
  responded /\ "alignWhisperWithSpeakers" \in called =>
    \A i \in 1..Len(response.speakers) :
      {"whisperBased", "assemblyAI", "mappingMethod"} \subseteq DOMAIN response.speakers[i]

\* C19, as far as the code goes: the three flags are there when the aligner
\* was given two segments or more; the single-segment result has
\* whisperBased and assemblyAI only.
C19_FlagsBeyondSingleSegment ==
  responded /\ "alignWhisperWithSpeakers" \in called =>
    \A i \in 1..Len(response.speakers) :
      /\ {"whisperBased", "assemblyAI"} \subseteq DOMAIN response.speakers[i]
      /\ Len(speakerSegments) >= 2 <=> "mappingMethod" \in DOMAIN response.speakers[i]

\* The segments handed to the aligner are in non-decreasing start order.
inStartOrder(segments) ==
  \A i \in 1..Len(segments) - 1 : segments[i].start <= segments[i + 1].start

\* C20: in every run in which both sources succeed (the hybrid branch),
\* Source B's utterances have gone through optimizeSpeakerSegments and the
\* segments given to the aligner are in non-decreasing start order.
C20_SortedBeforeAlignment ==
  withSpeakers /\ responded /\ "alignWhisperWithSpeakers" \in called =>
    /\ "optimizeSpeakerSegments" \in called
    /\ inStartOrder(speakerSegments)

\* C20, as far as the code goes: the segments are in start order whenever
\* the optimizer ran; utterances of average confidence above 0.7, ten at
\* most, skip it and keep the order they arrived in.
C20_SortedWhenOptimized ==
  withSpeakers /\ responded /\ "alignWhisperWithSpeakers" \in called
    /\ Len(srcB.value.utterances) > 0 =>
    /\ "optimizeSpeakerSegments" \in called => inStartOrder(speakerSegments)
    /\ "optimizeSpeakerSegments" \in called <=> ~preserveUtterances(srcB.value.utterances)
    /\ "optimizeSpeakerSegments" \notin called =>
         \A i \in 1..Len(speakerSegments) :
           speakerSegments[i].start = srcB.value.utterances[i].start

\* C20: the aligner given segments out of start order.
C20_UnsortedAligned ==
  /\ withSpeakers
  /\ responded
  /\ "alignWhisperWithSpeakers" \in called
  /\ "optimizeSpeakerSegments" \notin called
  /\ ~inStartOrder(speakerSegments)
  /\ response.success

\* C21: the temporary file is not deleted while a source may still read it:
\* as long as the translation or the upload and transcription is pending,
\* the file is there and no unlink has been attempted; an unlink has been
\* attempted only when both sources have settled; and the step that
\* attempts it starts from a state in which both have settled.
C21_DeletedAfterBothSettled ==
  withSpeakers =>
    /\ whisperRunning \/ assemblyRunning => fileExists /\ unlinkCalls = 0
    /\ unlinkCalls > 0 => settled(srcA) /\ settled(srcB)

C21_DeletionStep ==
  [][withSpeakers /\ unlinkCalls' # unlinkCalls => settled(srcA) /\ settled(srcB)]_vars

C21_Witness ==
  /\ withSpeakers
  /\ responded
  /\ dispatched
  /\ unlinkCalls = 1
  /\ ~fileExists
  /\ srcA.st = "fulfilled"
  /\ srcB.st = "rejected"

-----------------------------------------------------------------------------
(* C22: the order of the tests of analyzeVoicePatterns                     *)

\* The list optimizeSpeakerSegments hands to analyzeVoicePatterns.
analysedSegments ==
  LET sortedSegments == sortByStart(srcB.value.utterances)
  IN optimizeLoop(sortedSegments,
                  validateSpeakerQuality(sortedSegments).hasHighConfidenceSegments, 1, <<>>)

segmentsOfSpeaker(sp) ==
  {i \in 1..Len(analysedSegments) : analysedSegments[i].speaker = sp}

confidenceOfSpeaker(sp) ==
  sumSeq([i \in 1..Len(analysedSegments) |->
            IF analysedSegments[i].speaker = sp THEN analysedSegments[i].confidence ELSE 0])

\* The speakers with more than 95 percent of the segments.
dominantSpeakers ==
  {sp \in {<<"A">>, <<"B">>} :
     Cardinality(segmentsOfSpeaker(sp)) * 100 > DominancePercent * Len(analysedSegments)}

speakerChanges ==
  {i \in 2..Len(analysedSegments) :
     analysedSegments[i - 1].speaker # analysedSegments[i].speaker}

rapidAlternationFires ==
  /\ speakerChanges # {}
  /\ Cardinality({i \in speakerChanges :
                    analysedSegments[i].start - analysedSegments[i - 1].end < RapidGapMs}) * 100
       > RapidPercent * Cardinality(speakerChanges)

\* The average confidence of a is more than 0.25 above that of b.
moreConfident(a, b) ==
  /\ segmentsOfSpeaker(a) # {}
  /\ segmentsOfSpeaker(b) # {}
  /\ confidenceOfSpeaker(a) * Cardinality(segmentsOfSpeaker(b))
       - confidenceOfSpeaker(b) * Cardinality(segmentsOfSpeaker(a))
       > DisparityConfidence * Cardinality(segmentsOfSpeaker(a))
           * Cardinality(segmentsOfSpeaker(b))

confidenceDisparityFires ==
  moreConfident(<<"A">>, <<"B">>) \/ moreConfident(<<"B">>, <<"A">>)

shortSegmentsFire ==
  Cardinality({i \in 1..Len(analysedSegments) :
                 Len(trim(analysedSegments[i].text)) < ShortTextLength}) * 100
    > ShortPercent * Len(analysedSegments)

\* The handler ran the analysis and acts on its result: the optimizer was
\* called and the average confidence is above the trust threshold.
analysisApplied ==
  /\ responded
  /\ "optimizeSpeakerSegments" \in called
  /\ validateSpeakerQuality(srcB.value.utterances).averageConfidence > TrustConfidence

singleWith(result, sp, why) ==
  /\ result.isSingleSpeaker
  /\ result.primarySpeaker = sp
  /\ result.reason = why
  /\ declaredSingle(sp)

\* C22: analyzeVoicePatterns never declares a single speaker for fewer than
\* two segments; for two or more its result (primary speaker and reason) is
\* that of the first of dominance, rapid alternation, confidence disparity and
\* short-segment saturation that fires, even when a later test names another
\* speaker; when none fires it reports several speakers.
C22_FirstTestWins ==
  analysisApplied =>
    LET result == analyzeVoicePatterns(analysedSegments)
        first == analysedSegments[1].speaker
    IN IF Len(analysedSegments) < 2
       THEN ~result.isSingleSpeaker /\ ~declaredSingle(first)
       ELSE IF dominantSpeakers # {}
       THEN \E sp \in dominantSpeakers : singleWith(result, sp, "Dominance pattern")
       ELSE IF rapidAlternationFires
       THEN singleWith(result, first, "Rapid alternations")
       ELSE IF confidenceDisparityFires
       THEN singleWith(result,
                       IF moreConfident(<<"A">>, <<"B">>) THEN <<"A">> ELSE <<"B">>,
                       "Confidence disparity")
       ELSE IF shortSegmentsFire
       THEN singleWith(result, first, "Too many short segments")
       ELSE /\ ~result.isSingleSpeaker
            /\ result.reason = "Multiple speakers detected"
            /\ \A sp \in {<<"A">>, <<"B">>} : ~declaredSingle(sp)

\* C22: rapid alternation has fired and named speaker B, while the confidence
\* disparity and the short segments would both have fired, the former naming A.
C22_Witness ==
  /\ analysisApplied
  /\ Len(analysedSegments) >= 2
  /\ dominantSpeakers = {}
  /\ rapidAlternationFires
  /\ moreConfident(<<"A">>, <<"B">>)
  /\ shortSegmentsFire
  /\ declaredSingle(<<"B">>)

\* C22: a single segment, and no single speaker declared.
C22_WitnessOneSegment ==
  analysisApplied /\ Len(analysedSegments) = 1 /\ ~declaredSingle(analysedSegments[1].speaker)

\* C22: no test fires.
C22_WitnessNoneFires ==
  /\ analysisApplied
  /\ Len(analysedSegments) >= 2
  /\ dominantSpeakers = {}
  /\ ~rapidAlternationFires
  /\ ~confidenceDisparityFires
  /\ ~shortSegmentsFire
  /\ ~declaredSingle(<<"A">>)

\* C22: the confidence disparity decides.
C22_WitnessDisparity ==
  /\ analysisApplied
  /\ dominantSpeakers = {}
  /\ ~rapidAlternationFires
  /\ moreConfident(<<"A">>, <<"B">>)
  /\ analysedSegments[1].speaker = <<"B">>
  /\ declaredSingle(<<"A">>)

-----------------------------------------------------------------------------
(* C23: sentence grouping                                                  *)

\* The response was aligned by sentence grouping: S > N >= 2.
sentenceGroupingUsed ==
  /\ responded
  /\ response.success
  /\ Len(response.speakers) >= 2
  /\ \A i \in 1..Len(response.speakers) :
       /\ "mappingMethod" \in DOMAIN response.speakers[i]
       /\ response.speakers[i].mappingMethod = "sentence-grouping"

\* The sentences of the text of segment i of the response.
groupOf(i) == whisperSentencesOf(response.speakers[i].text)

RECURSIVE groupsFrom(_)
groupsFrom(i) ==
  IF i > Len(response.speakers) THEN <<>> ELSE groupOf(i) \o groupsFrom(i + 1)

\* C23, every sentence in exactly one group, in the original order, and no
\* group larger than ceil(S/N).
C23_SentencesPartitioned ==
  sentenceGroupingUsed =>
    LET S == Len(whisperSentencesOf(transcriptText))
        N == Len(response.speakers)
    IN /\ S > N
       /\ groupsFrom(1) = whisperSentencesOf(transcriptText)
       /\ \A i \in 1..N : Len(groupOf(i)) <= (S + N - 1) \div N

\* C23: with S sentences over N segments, S > N >= 2, the sentences are
\* partitioned into N contiguous groups, one per segment in order: every
\* sentence is in exactly one group and every segment receives a non-empty
\* group.
C23_EveryGroupNonEmpty ==
  sentenceGroupingUsed =>
    /\ groupsFrom(1) = whisperSentencesOf(transcriptText)
    /\ \A i \in 1..Len(response.speakers) : Len(groupOf(i)) >= 1

\* C23: four sentences over three segments, the third segment receiving no
\* sentence and the text ".".
C23_EmptyGroup ==
  /\ sentenceGroupingUsed
  /\ Len(whisperSentencesOf(transcriptText)) = 4
  /\ Len(response.speakers) = 3
  /\ Len(groupOf(1)) = 2
  /\ Len(groupOf(2)) = 2
  /\ response.speakers[3].text = <<".">>

-----------------------------------------------------------------------------
(* C24: the words of every segment in the content-proportional path        *)

\* The words of the text of segment i of the response.
wordsOfSegment(i) ==
  SelectSeq(split(response.speakers[i].text, Whitespace), LAMBDA w : Len(w) > 0)

\* Math.max(1, Math.round(words.length * segmentProportion)) for segment i,
\* the durations being positive.
wordShare(i) ==
  LET idx == 1..Len(speakerSegments)
      totalDuration == maxOf({speakerSegments[k].end : k \in idx})
                         - minOf({speakerSegments[k].start : k \in idx})
      share == roundDiv(Len(assignedWords(response.speakers))
                          * (speakerSegments[i].end - speakerSegments[i].start),
                        totalDuration)
  IN IF share > 1 THEN share ELSE 1

positiveDurations ==
  \A i \in 1..Len(speakerSegments) : speakerSegments[i].end > speakerSegments[i].start

\* C24: in the content-proportional path every segment receives
\* max(1, round(wordCount x durationShare)) words, hence at least one word of
\* Source A's text, for every number of words and every list of durations.
C24_EverySegmentHasAWord ==
  contentProportionalUsed =>
    \A i \in 1..Len(response.speakers) : Len(wordsOfSegment(i)) >= 1

\* C24, what the code ensures: no segment but the last receives more than its
\* share of words.
C24_AtMostTheShare ==
  contentProportionalUsed /\ positiveDurations =>
    \A i \in 1..Len(response.speakers) - 1 : Len(wordsOfSegment(i)) <= wordShare(i)

\* C24: one word over two segments of one second each, the second segment
\* receiving no word.
C24_SegmentWithoutWord ==
  /\ contentProportionalUsed
  /\ positiveDurations
  /\ Len(response.speakers) = 2
  /\ Len(wordsOfSegment(1)) = 1
  /\ wordShare(2) = 1
  /\ Len(wordsOfSegment(2)) = 0
  /\ response.speakers[2].text = <<>>

-----------------------------------------------------------------------------
(* C25: createFallbackSpeakerDetection on texts of several sentences       *)

BodyEvening ==
  <<"I","t"," ","s","t","a","r","t","e","d"," ","y","e","s","t","e","r","d","a","y"," ",
    "e","v","e","n","i","n","g"," ","a","f","t","e","r"," ","d","i","n","n","e","r">>

FallbackBodies == {BodyYes, BodyHeadache, BodyEvening}

FallbackEnds == {<<".">>, <<"?">>, <<"!", "!">>}

RECURSIVE fallbackTextsOf(_)
fallbackTextsOf(k) ==
  IF k = 1 THEN {body \o <<".">> : body \in FallbackBodies}
  ELSE {body \o mark \o <<" ">> \o rest :
          body \in FallbackBodies, mark \in FallbackEnds, rest \in fallbackTextsOf(k - 1)}

FallbackTexts == UNION {fallbackTextsOf(k) : k \in 1..MaxSentences - 1}

FallbackInit ==
  /\ handler = "transcribeWithSpeakers"
  /\ env = [assemblyKey |-> TRUE, openaiKey |-> TRUE]
  /\ file = [present |-> TRUE, size |-> 5000, path |-> PathWav]
  /\ fileExists = TRUE
  /\ unlinkCalls = 0
  /\ pc = "awaiting"
  /\ \E text \in FallbackTexts : srcA = [st |-> "fulfilled", value |-> text]
  /\ srcB \in {[st |-> "rejected", reason |-> Error(401, "", "Unauthorized")],
               [st |-> "fulfilled", value |-> Transcript("error", <<>>, <<>>)]}
  /\ transcriptText = <<>>
  /\ speakerSegments = <<>>
  /\ called = {}
  /\ responses = <<>>
  /\ ServicesUnused

FallbackSpec == FallbackInit /\ [][RespondWhisperOnly]_vars

\* The sentences createFallbackSpeakerDetection keeps: the fragments between
\* runs of '.', '!' and '?' of more than five characters, trimmed.
fallbackSentences ==
  SelectSeq(mapSeq(split(transcriptText, SentenceDelims), trim),
            LAMBDA s : Len(s) > FallbackSentenceMinLength)

fallbackUsed ==
  /\ responded
  /\ "createFallbackSpeakerDetection" \in called
  /\ Len(fallbackSentences) >= 2

C25_WitnessShortFragment ==
  /\ fallbackUsed
  /\ Len(response.speakers) = 2
  /\ Len(split(transcriptText, SentenceDelims)) > 3

-----------------------------------------------------------------------------
(* C26: Source A fulfilled with a blank text                               *)

\* Source A settled successfully with an empty or whitespace-only text.
whisperBlank == srcA.st = "fulfilled" /\ Len(trim(srcA.value)) = 0

assemblyOnlyResponse ==
  Success(join(mapSeq(extractSegments(srcB), LAMBDA s : s.text), <<" ">>),
          extractSegments(srcB),
          Message("Speaker detection successful, but Whisper transcription failed", <<>>))

bothFailedResponse ==
  Failure(500, Message("Both Whisper transcription and Assembly AI speaker detection failed",
                       <<>>))

\* C26: a Source A call that settles successfully with empty or
\* whitespace-only text is handled like a Source A failure: with a non-empty
\* Source B segment list the Source-B-only branch is taken, and with no
\* usable Source B output the response is the HTTP 500 both-sources-failed
\* error.
C26_BlankLikeFailure ==
  withSpeakers /\ responded /\ whisperBlank =>
    response = IF assemblyUsable THEN assemblyOnlyResponse ELSE bothFailedResponse

\* C26, what the code does: without usable text of Source A the response is
\* the same whether Source A was rejected or fulfilled with a blank text; it
\* is the answer of the catch block when the unlink or the extraction threw,
\* and otherwise the Source-B-only answer or the both-failed error.
C26_SameAsFailure ==
  withSpeakers /\ responded /\ dispatched /\ ~whisperUsable =>
    response = IF unlinkCalls = 2 THEN catchWithSpeakers(UnlinkError)
               ELSE IF extractionThrows(srcB) THEN catchWithSpeakers(NullSpeakerError)
               ELSE IF Len(extractSegments(srcB)) > 0 THEN assemblyOnlyResponse
               ELSE bothFailedResponse

\* C26: a whitespace-only text of Source A and the Source-B-only answer.
C26_BlankAssemblyOnly ==
  /\ withSpeakers
  /\ responded
  /\ whisperBlank
  /\ Len(srcA.value) > 0
  /\ assemblyUsable
  /\ response = assemblyOnlyResponse

\* C26: a blank text of Source A, a non-empty segment list of Source B, and
\* the answer of the catch block after the unlink threw.
C26_BlankUnlinkFailure ==
  /\ withSpeakers
  /\ responded
  /\ whisperBlank
  /\ assemblyUsable
  /\ response.status = 500
  /\ response.error = Message("Transcription failed: ", <<UnlinkError.message>>)

-----------------------------------------------------------------------------
(* AnalysisIntegrationService.analyze2DImage: the request loop             *)

maxRetries == 3

FirstRetryDelayMs == 15000

LaterRetryDelayMs == 30000

TextTooManyRequests ==
  <<"T","o","o"," ","M","a","n","y"," ","R","e","q","u","e","s","t","s">>

TextRateLimit ==
  <<"R","a","t","e"," ","l","i","m","i","t"," ","e","x","c","e","e","d","e","d">>

TextCloudflare ==
  <<"C","l","o","u","d","f","l","a","r","e"," ","T","u","n","n","e","l"," ","e","r","r","o","r",
  " ","1","0","3","3">>

TextNonMedical ==
  <<"N","o","n","-","m","e","d","i","c","a","l"," ","i","m","a","g","e"," ","d","e","t","e","c",
  "t","e","d">>

TextOnlyPng ==
  <<"O","n","l","y"," ","P","N","G","/","J","P","G"," ","i","m","a","g","e","s"," ","a","r","e",
  " ","s","u","p","p","o","r","t","e","d">>

TextFileTooLarge ==
  <<"F","i","l","e"," ","t","o","o"," ","l","a","r","g","e">>

TextInternalError ==
  <<"I","n","t","e","r","n","a","l"," ","S","e","r","v","e","r"," ","E","r","r","o","r">>

PhraseTooManyRequests ==
  <<"t","o","o"," ","m","a","n","y"," ","r","e","q","u","e","s","t","s">>

PhraseRateLimit ==
  <<"r","a","t","e"," ","l","i","m","i","t">>

PhraseCloudflare ==
  <<"C","l","o","u","d","f","l","a","r","e"," ","T","u","n","n","e","l"," ","e","r","r","o",
  "r">>

\* The non-OK answers of the Python service: status and body text.
ErrorResponses ==
  {[ok |-> FALSE, status |-> 429, text |-> TextTooManyRequests],
   [ok |-> FALSE, status |-> 503, text |-> TextRateLimit],
   [ok |-> FALSE, status |-> 530, text |-> TextCloudflare],
   [ok |-> FALSE, status |-> 502, text |-> TextCloudflare],
   [ok |-> FALSE, status |-> 400, text |-> TextNonMedical],
   [ok |-> FALSE, status |-> 400, text |-> TextOnlyPng],
   [ok |-> FALSE, status |-> 413, text |-> TextFileTooLarge],
   [ok |-> FALSE, status |-> 500, text |-> TextInternalError]}

OkResponse == [ok |-> TRUE, status |-> 200, text |-> <<>>]

\* A variable that was never assigned.
Undefined == [undefined |-> TRUE]

\* The if-chain without the rate-limit case.
afterErrorTextRetryingRateLimit(status, errorText) ==
  IF includes(errorText, PhraseCloudflare) \/ status = 530
  THEN [break |-> FALSE,
        lastError |-> Message("Python Analysis Service is temporarily unavailable", <<>>)]
  ELSE IF \/ includes(errorText, TextNonMedical)
          \/ includes(errorText, TextOnlyPng)
          \/ includes(errorText, TextFileTooLarge)
  THEN [break |-> TRUE, lastError |-> Message("The upload was rejected.", <<>>)]
  ELSE [break |-> FALSE,
        lastError |-> Message("Python Analysis API error: ", <<status, errorText>>)]

\* The if-chain on a non-OK response whose text was read: lastError and
\* whether the loop is left (break).
afterErrorText(status, errorText) ==
  IF \/ status = 429
     \/ includes(toLowerCase(errorText), PhraseTooManyRequests)
     \/ includes(toLowerCase(errorText), PhraseRateLimit)
  THEN [break |-> TRUE,
        lastError |-> Message("Rate limit reached. Please wait a few minutes before trying again.",
                              <<>>)]
  ELSE IF includes(errorText, PhraseCloudflare) \/ status = 530
  THEN [break |-> FALSE,
        lastError |-> Message("Python Analysis Service is temporarily unavailable", <<>>)]
  ELSE IF includes(errorText, TextNonMedical)
  THEN [break |-> TRUE,
        lastError |-> Message("The uploaded image was not recognized as a medical image.", <<>>)]
  ELSE IF includes(errorText, TextOnlyPng)
  THEN [break |-> TRUE,
        lastError |-> Message("Invalid image format. Please upload PNG or JPEG images only.",
                              <<>>)]
  ELSE IF includes(errorText, TextFileTooLarge)
  THEN [break |-> TRUE,
        lastError |-> Message("File size too large. Please upload images smaller than 50MB.",
                              <<>>)]
  ELSE [break |-> FALSE,
        lastError |-> Message("Python Analysis API error: ", <<status, errorText>>)]

\* The loop is left: line 179 throws unless the last response is OK.
leaveLoop(a) ==
  IF a.response = Undefined \/ ~a.response.ok
  THEN [a EXCEPT !.pc = "thrown", !.thrown = a.lastError]
  ELSE [a EXCEPT !.pc = "parsing"]

\* The end of an attempt that failed without break: wait and go round, or
\* fall out of the loop after the last attempt.
retryOrLeave(a) ==
  IF a.attempt < maxRetries
  THEN [a EXCEPT !.pc = "waiting",
                 !.delays = Append(@, IF a.attempt = 1 THEN FirstRetryDelayMs
                                      ELSE LaterRetryDelayMs)]
  ELSE leaveLoop([a EXCEPT !.attempt = @ + 1])

TranscriptionUnused ==
  /\ handler = "transcribeWithSpeakers"
  /\ env = [assemblyKey |-> TRUE, openaiKey |-> TRUE]
  /\ file = NoFile
  /\ fileExists = FALSE
  /\ unlinkCalls = 0
  /\ pc = "unused"
  /\ srcA = Idle
  /\ srcB = Idle
  /\ transcriptText = <<>>
  /\ speakerSegments = <<>>
  /\ called = {}
  /\ responses = <<>>

Analysis2DInit ==
  /\ TranscriptionUnused
  /\ analysis2D = [pc |-> "loop", attempt |-> 1, response |-> Undefined,
                   lastError |-> Undefined, requests |-> 0, abandoned |-> 0,
                   delays |-> <<>>, outcomes |-> <<>>, thrown |-> Undefined]
  /\ polling3D = Unused
  /\ invitations = Unused
  /\ diagnoses = Unused

Step2D(next) ==
  /\ analysis2D' = next
  /\ UNCHANGED <<transcriptionVars, polling3D, invitations, diagnoses>>

\* The first pass through the head of the loop: the request is sent and
\* raced against the timeout.
AttemptStarts ==
  /\ analysis2D.pc = "loop"
  /\ analysis2D.attempt <= maxRetries
  /\ Step2D([analysis2D EXCEPT !.pc = "fetching", !.requests = @ + 1])

\* The fetch wins the race with an OK response: break, and the result is read.
FetchFulfilsOk ==
  /\ analysis2D.pc = "fetching"
  /\ Step2D(leaveLoop([analysis2D EXCEPT
                         !.response = OkResponse,
                         !.outcomes = Append(@, [response |-> OkResponse, error |-> "none"])]))

\* The fetch wins the race with a non-OK response: its text is awaited.
FetchFulfilsNotOk ==
  /\ analysis2D.pc = "fetching"
  /\ \E r \in ErrorResponses :
       Step2D([analysis2D EXCEPT !.pc = "readingText", !.response = r])

\* response.text() fulfils: the if-chain of lines 142-158.
ErrorTextRead ==
  /\ analysis2D.pc = "readingText"
  /\ LET r == analysis2D.response
         verdict == afterErrorText(r.status, r.text)
         a == [analysis2D EXCEPT !.lastError = verdict.lastError,
                                 !.outcomes = Append(@, [response |-> r, error |-> "none"])]
     IN Step2D(IF verdict.break THEN leaveLoop(a) ELSE retryOrLeave(a))

\* response.text() rejects: the catch block of lines 167-177.
ErrorTextFails ==
  /\ analysis2D.pc = "readingText"
  /\ Step2D(retryOrLeave(
       [analysis2D EXCEPT
          !.lastError = Message("Network error connecting to Python Analysis Service: ",
                                <<"body">>),
          !.outcomes = Append(@, [response |-> analysis2D.response, error |-> "body"])]))

\* The fetch rejects.
FetchRejects ==
  /\ analysis2D.pc = "fetching"
  /\ Step2D(retryOrLeave(
       [analysis2D EXCEPT
          !.lastError = Message("Network error connecting to Python Analysis Service: ",
                                <<"fetch failed">>),
          !.outcomes = Append(@, [response |-> Undefined, error |-> "network"])]))

\* The timeout wins the race after two minutes; the fetch is not aborted.
RequestTimesOut ==
  /\ analysis2D.pc = "fetching"
  /\ Step2D(retryOrLeave(
       [analysis2D EXCEPT
          !.lastError = Message("Network error connecting to Python Analysis Service: ",
                                <<"Request timeout">>),
          !.abandoned = @ + 1,
          !.outcomes = Append(@, [response |-> Undefined, error |-> "timeout"])]))

\* The delay is over: attempt++ and the next request is sent.
DelayElapses ==
  /\ analysis2D.pc = "waiting"
  /\ Step2D([analysis2D EXCEPT !.pc = "fetching", !.attempt = @ + 1, !.requests = @ + 1])

Analysis2DNext ==
  \/ AttemptStarts
  \/ FetchFulfilsOk
  \/ FetchFulfilsNotOk
  \/ ErrorTextRead
  \/ ErrorTextFails
  \/ FetchRejects
  \/ RequestTimesOut
  \/ DelayElapses

Analysis2DSpec == Analysis2DInit /\ [][Analysis2DNext]_vars

\* What an attempt ended in, judged from the response and the error alone.
rateLimited(outcome) ==
  /\ outcome.error = "none"
  /\ ~outcome.response.ok
  /\ \/ outcome.response.status = 429
     \/ outcome.response.text \in {TextTooManyRequests, TextRateLimit}

contentRejected(outcome) ==
  /\ outcome.error = "none"
  /\ ~outcome.response.ok
  /\ outcome.response.text \in {TextNonMedical, TextOnlyPng, TextFileTooLarge}

succeeded(outcome) == outcome.error = "none" /\ outcome.response.ok

retryable(outcome) == ~succeeded(outcome) /\ ~rateLimited(outcome) /\ ~contentRejected(outcome)

C27_OneAfterAnother ==
  [][analysis2D.pc # "unused" /\ analysis2D'.requests # analysis2D.requests =>
       /\ analysis2D.pc \in {"loop", "waiting"}
       /\ analysis2D'.requests = analysis2D.requests + 1
       /\ analysis2D'.pc = "fetching"]_vars

C27_WitnessRateLimit ==
  /\ analysis2D.pc = "thrown"
  /\ analysis2D.requests = 2
  /\ rateLimited(analysis2D.outcomes[2])
  /\ analysis2D.delays = <<15000>>

\* C27: an OK response to the second attempt.
C27_WitnessOk ==
  /\ analysis2D.pc = "parsing"
  /\ analysis2D.requests = 2

-----------------------------------------------------------------------------
(* AnalysisIntegrationService.poll3DJobStatus                              *)

maxAttempts == 20

\* The states the job service reports.
JobStates == {"completed", "finished", "succeeded", "failed", "error", "queued", "running"}

\* attempts > maxAttempts without effect: the poll never gives up.
neverTimedOut(attempts) == FALSE

\* if (attempts > maxAttempts)
timedOut(attempts) == attempts > maxAttempts

Polling3DInit ==
  /\ TranscriptionUnused
  /\ analysis2D = Unused
  /\ polling3D = [pc |-> "scheduled", attempts |-> 0, requests |-> 0, timers |-> 1,
                  handlers |-> <<>>, last |-> "none"]
  /\ invitations = Unused
  /\ diagnoses = Unused

Step3D(next) ==
  /\ polling3D' = next
  /\ UNCHANGED <<transcriptionVars, analysis2D, invitations, diagnoses>>

\* setTimeout(poll, pollInterval) in a poll that saw `outcome`.
schedulePoll(p, outcome) ==
  [p EXCEPT !.pc = "scheduled", !.timers = @ + 1, !.last = outcome]

\* The timer fires and poll runs up to its first await: the timeout handler
\* or the status request.
PollStarts ==
  /\ polling3D.pc = "scheduled"
  /\ polling3D.timers > 0
  /\ LET p == [polling3D EXCEPT !.timers = @ - 1, !.attempts = @ + 1]
     IN Step3D(IF timedOut(p.attempts)
               THEN [p EXCEPT !.pc = "handling",
                              !.handlers = Append(@, "handle3DJobTimeout")]
               ELSE [p EXCEPT !.pc = "fetching", !.requests = @ + 1])

\* The status request is answered with a status that is not OK.
StatusNotOk ==
  /\ polling3D.pc = "fetching"
  /\ Step3D(schedulePoll(polling3D, "notOk"))

\* The status request rejects: the catch block.
StatusRequestFails ==
  /\ polling3D.pc = "fetching"
  /\ Step3D(schedulePoll(polling3D, "threw"))

\* The status request is answered OK: the body is awaited.
StatusOk ==
  /\ polling3D.pc = "fetching"
  /\ Step3D([polling3D EXCEPT !.pc = "readingJson"])

\* statusResponse.json() rejects: the catch block.
StatusBodyFails ==
  /\ polling3D.pc = "readingJson"
  /\ Step3D(schedulePoll(polling3D, "threw"))

\* statusResponse.json() fulfils with the state of the job.
StatusRead ==
  /\ polling3D.pc = "readingJson"
  /\ \E state \in JobStates :
       Step3D(IF state \in {"completed", "finished", "succeeded"}
              THEN [polling3D EXCEPT !.pc = "handling", !.last = state,
                                     !.handlers = Append(@, "handle3DJobCompletion")]
              ELSE IF state \in {"failed", "error"}
              THEN [polling3D EXCEPT !.pc = "handling", !.last = state,
                                     !.handlers = Append(@, "handle3DJobFailure")]
              ELSE schedulePoll(polling3D, state))

\* The awaited handler returns (each handler catches whatever it throws) and
\* poll returns without scheduling.
HandlerReturns ==
  /\ polling3D.pc = "handling"
  /\ Step3D([polling3D EXCEPT !.pc = "stopped"])

Polling3DNext ==
  \/ PollStarts
  \/ StatusNotOk
  \/ StatusRequestFails
  \/ StatusOk
  \/ StatusBodyFails
  \/ StatusRead
  \/ HandlerReturns

\* Timers fire, and requests and handlers settle.
Polling3DSpec == Polling3DInit /\ [][Polling3DNext]_vars /\ WF_vars(Polling3DNext)

\* One poll at a time, at most maxAttempts status requests, at most one
\* handler, and nothing scheduled once a handler was invoked.
pollingBounded ==
  polling3D.pc # "unused" =>
    /\ polling3D.requests <= 20
    /\ polling3D.requests = IF polling3D.attempts <= 20 THEN polling3D.attempts ELSE 20
    /\ polling3D.timers = IF polling3D.pc = "scheduled" THEN 1 ELSE 0
    /\ Len(polling3D.handlers) <= 1
    /\ Len(polling3D.handlers) = 1 <=> polling3D.pc \in {"handling", "stopped"}
    /\ polling3D.handlers = <<"handle3DJobTimeout">> <=> polling3D.attempts > 20

\* C28: polling of a 3D job always terminates: polls run one at a time, at
\* most 20 status requests are issued, and polling stops after invoking
\* exactly one of the completion, failure and timeout handlers (the timeout
\* handler when the attempt count exceeds 20, also when every status request
\* failed or threw); no poll is scheduled after a handler was invoked.
C28_PollingTerminates ==
  /\ []pollingBounded
  /\ <>[](polling3D.pc = "stopped" /\ Len(polling3D.handlers) = 1 /\ polling3D.timers = 0)

\* C28: twenty status requests, the last of them not answered OK, then the
\* timeout handler, and polling stopped.
C28_Witness ==
  /\ polling3D.pc = "stopped"
  /\ polling3D.requests = 20
  /\ polling3D.attempts = 21
  /\ polling3D.last \in {"notOk", "threw"}
  /\ polling3D.handlers = <<"handle3DJobTimeout">>

\* C28: the completion handler after the third status request.
C28_WitnessCompletion ==
  /\ polling3D.pc = "stopped"
  /\ polling3D.requests = 3
  /\ polling3D.handlers = <<"handle3DJobCompletion">>

-----------------------------------------------------------------------------
(* acceptInvitation and getInvitationByToken on one invitation token       *)

\* The number of requests made with the token.
MaxRequests == 2

Requests == 1..MaxRequests

\* The invited e-mail address has no account, an account outside the
\* organization, or an account that is a member already.
Accounts == {"absent", "other", "member"}

InvitationInit ==
  /\ TranscriptionUnused
  /\ analysis2D = Unused
  /\ polling3D = Unused
  /\ diagnoses = Unused
  /\ \E account \in Accounts, kinds \in [Requests -> {"acceptInvitation", "getInvitationByToken"}],
        passwords \in [Requests -> BOOLEAN] :
       /\ \A r \in Requests : kinds[r] = "getInvitationByToken" => passwords[r]
       /\ invitations =
            [pc |-> "serving",
             status |-> "pending",
             pastExpiry |-> FALSE,
             user |-> account,
             users |-> IF account = "absent" THEN 0 ELSE 1,
             members |-> IF account = "member" THEN 1 ELSE 0,
             writes |-> <<>>,
             requests |-> [r \in Requests |->
                             [kind |-> kinds[r], password |-> passwords[r], pc |-> "start",
                              user |-> "unread", status |-> 0]]]

StepInvitation(next) ==
  /\ invitations' = next
  /\ UNCHANGED <<transcriptionVars, analysis2D, polling3D, diagnoses>>

request(r) == invitations.requests[r]

\* Request r moves to pc `to`.
moved(r, to) == [invitations EXCEPT !.requests[r].pc = to]

\* Request r sends its response.
answered(inv, r, status) ==
  [inv EXCEPT !.requests[r].pc = "done", !.requests[r].status = status]

\* invitation.status = value; await invitation.save(): the status of the
\* loaded document is written whatever the stored status has become.
saved(inv, r, value) ==
  [inv EXCEPT !.status = value,
              !.writes = Append(@, [from |-> inv.status, to |-> value, by |-> r])]

\* new Date() passes invitation.expiresAt.
InvitationExpires ==
  /\ ~invitations.pastExpiry
  /\ \E r \in Requests : request(r).pc # "done"
  /\ StepInvitation([invitations EXCEPT !.pastExpiry = TRUE])

\* Invitation.findOne({ token, status: 'pending' }) answers, and the handler
\* runs up to its next await.
FindInvitation ==
  \E r \in Requests :
    /\ request(r).pc = "start"
    /\ StepInvitation(
         IF invitations.status # "pending" THEN answered(invitations, r, 404)
         ELSE IF invitations.pastExpiry THEN moved(r, "savingExpired")
         ELSE IF request(r).kind = "getInvitationByToken" THEN answered(invitations, r, 200)
         ELSE moved(r, "findingUser"))

SaveExpired ==
  \E r \in Requests :
    /\ request(r).pc = "savingExpired"
    /\ StepInvitation(answered(saved(invitations, r, "expired"), r, 400))

\* User.findOne({ email }) answers.
FindUser ==
  \E r \in Requests :
    /\ request(r).pc = "findingUser"
    /\ LET found == [invitations EXCEPT !.requests[r].user = invitations.user]
       IN StepInvitation(
            IF invitations.user = "member" THEN answered(found, r, 400)
            ELSE IF invitations.user = "other"
            THEN [found EXCEPT !.requests[r].pc = "savingUser"]
            ELSE IF ~request(r).password THEN answered(found, r, 400)
            ELSE [found EXCEPT !.requests[r].pc = "creatingUser"])

\* user.organization = invitation.organization._id; await user.save()
SaveUser ==
  \E r \in Requests :
    /\ request(r).pc = "savingUser"
    /\ StepInvitation([invitations EXCEPT !.user = "member",
                                          !.requests[r].pc = "findingOrganization"])

\* await user.save() of the new User: a second account of the same e-mail
\* address is refused (duplicate key), and next(error) ends the request.
CreateUser ==
  \E r \in Requests :
    /\ request(r).pc = "creatingUser"
    /\ StepInvitation(
         IF invitations.users > 0 THEN answered(invitations, r, 500)
         ELSE [invitations EXCEPT !.user = "member", !.users = 1,
                                  !.requests[r].pc = "findingOrganization"])

\* Organization.findById answers: the member is pushed unless the loaded
\* list holds an existing user already.
FindOrganization ==
  \E r \in Requests :
    /\ request(r).pc = "findingOrganization"
    /\ StepInvitation(
         IF request(r).user = "other" /\ invitations.members > 0
         THEN moved(r, "savingAccepted")
         ELSE moved(r, "savingOrganization"))

\* organization.members.push(user._id); await organization.save()
SaveOrganization ==
  \E r \in Requests :
    /\ request(r).pc = "savingOrganization"
    /\ StepInvitation([invitations EXCEPT !.members = @ + 1,
                                          !.requests[r].pc = "savingAccepted"])

SaveAccepted ==
  \E r \in Requests :
    /\ request(r).pc = "savingAccepted"
    /\ StepInvitation(answered(saved(invitations, r, "accepted"), r, 200))

InvitationNext ==
  \/ InvitationExpires
  \/ FindInvitation
  \/ SaveExpired
  \/ FindUser
  \/ SaveUser
  \/ CreateUser
  \/ FindOrganization
  \/ SaveOrganization
  \/ SaveAccepted

InvitationSpec == InvitationInit /\ [][InvitationNext]_vars

\* The acceptInvitation requests that succeeded.
accepted ==
  {r \in Requests : /\ request(r).kind = "acceptInvitation"
                    /\ request(r).pc = "done"
                    /\ request(r).status = 200}

\* C29: the status of an invitation only moves from pending to accepted or
\* from pending to expired and never changes afterwards, and a token is
\* accepted at most once: once one acceptInvitation has succeeded, every
\* later or concurrently interleaved acceptInvitation for the token fails
\* without creating a user or adding an organization member.
C29_AcceptedAtMostOnce ==
  invitations.pc # "unused" =>
    /\ \A k \in 1..Len(invitations.writes) :
         invitations.writes[k].to # invitations.writes[k].from
           => invitations.writes[k].from = "pending"
    /\ Cardinality(accepted) <= 1
    /\ invitations.users <= 1
    /\ invitations.members <= 1

\* C29, for a later request: a request that starts when the invitation is
\* no longer pending answers 404 and neither writes the status nor creates a
\* user nor adds a member.
C29_LaterRequestFails ==
  [][\A r \in Requests :
       /\ invitations.pc # "unused"
       /\ invitations.status # "pending"
       /\ invitations.requests[r].pc = "start"
       /\ invitations'.requests[r].pc # "start"
       => /\ invitations'.requests[r].status = 404
          /\ invitations'.writes = invitations.writes
          /\ invitations'.users = invitations.users
          /\ invitations'.members = invitations.members]_vars

\* C29: two acceptInvitation requests for the token have both answered 200.
C29_AcceptedTwice ==
  /\ invitations.pc # "unused"
  /\ Cardinality(accepted) = 2
  /\ Len(invitations.writes) = 2
  /\ invitations.writes[2].from = "accepted"
  /\ invitations.writes[2].to = "accepted"

\* C29: an accepted invitation has become expired.
C29_AcceptedThenExpired ==
  /\ invitations.pc # "unused"
  /\ invitations.status = "expired"
  /\ \E k \in 1..Len(invitations.writes) :
       invitations.writes[k].from = "accepted" /\ invitations.writes[k].to = "expired"

\* C29: the user was added to the organization twice.
C29_MemberAddedTwice ==
  invitations.pc # "unused" /\ invitations.members = 2

-----------------------------------------------------------------------------
(* analyzeConversation and the Diagnosis collection                        *)

\* The number of Diagnosis records the collection may hold.
MaxRecords == 3

PrefixLength == 200

ConversationFever ==
  <<"I"," ","h","a","v","e"," ","a"," ","f","e","v","e","r">>

ConversationFeverCough ==
  <<"I"," ","h","a","v","e"," ","a"," ","f","e","v","e","r"," ","a","n","d"," ","a"," ","c","o",
  "u","g","h">>

ConversationFeverPadded ==
  <<" ","I"," ","h","a","v","e"," ","a"," ","f","e","v","e","r","\n">>

ConversationRash ==
  <<"A"," ","r","a","s","h"," ","o","n"," ","m","y"," ","a","r","m">>

ConversationTexts ==
  {ConversationFever, ConversationFeverCough, ConversationFeverPadded, ConversationRash}

\* The patients that exist, and one id no patient has.
Patients == {"p1", "p2"}

UnknownPatient == "p9"

\* s.replace(/\s+/g, ' ')
RECURSIVE collapseWhitespace(_)
collapseWhitespace(s) ==
  IF Len(s) = 0 THEN <<>>
  ELSE IF s[1] \in Whitespace
  THEN IF Len(s) > 1 /\ s[2] \in Whitespace THEN collapseWhitespace(Tail(s))
       ELSE <<" ">> \o collapseWhitespace(Tail(s))
  ELSE <<s[1]>> \o collapseWhitespace(Tail(s))

isConversationExtension(previousConversation, newConversation) ==
  IF Len(previousConversation) = 0 \/ Len(newConversation) = 0 THEN FALSE
  ELSE
    LET normalizedPrevious == collapseWhitespace(trim(previousConversation))
        normalizedNew == collapseWhitespace(trim(newConversation))
    IN IF Len(normalizedNew) <= Len(normalizedPrevious) THEN FALSE
       ELSE \/ includes(normalizedNew, normalizedPrevious)
            \/ startsWith(normalizedNew,
                          slice(normalizedPrevious, 0,
                                minOf({PrefixLength, Len(normalizedPrevious)})))

\* The indexes of the records of the patient, the collection being in the
\* order of creation.
recordsOf(records, patientId) ==
  {i \in 1..Len(records) : records[i].patient = patientId}

\* Diagnosis.findOne({ patient, conversationText }) matching the text as it
\* was sent, without the trim of the schema.
exactMatchUntrimmed(records, patientId, conversationText) ==
  {i \in recordsOf(records, patientId) : records[i].conversationText = conversationText}

\* Diagnosis.findOne({ patient, conversationText }): the filter is cast by
\* the schema (conversationText: trim), as is every stored text.
exactMatch(records, patientId, conversationText) ==
  {i \in recordsOf(records, patientId) : records[i].conversationText = trim(conversationText)}

DiagnosisInit ==
  /\ TranscriptionUnused
  /\ analysis2D = Unused
  /\ polling3D = Unused
  /\ invitations = Unused
  /\ diagnoses = [pc |-> "serving", records |-> <<>>, nextId |-> 1,
                  last |-> [status |-> 0, patient |-> UnknownPatient,
                            conversationText |-> <<>>, updateExisting |-> FALSE,
                            outcome |-> "none", modelCalled |-> FALSE,
                            diagnosisId |-> 0, before |-> <<>>]]

\* One request served from beginning to end.
Served(records, result) ==
  /\ diagnoses' = [diagnoses EXCEPT !.records = records,
                                    !.nextId = IF Len(records) > Len(diagnoses.records)
                                               THEN @ + 1 ELSE @,
                                    !.last = result]
  /\ UNCHANGED <<transcriptionVars, analysis2D, polling3D, invitations>>

Result(status, patientId, conversationText, updateExisting, outcome, modelCalled, diagnosisId) ==
  [status |-> status, patient |-> patientId, conversationText |-> conversationText,
   updateExisting |-> updateExisting, outcome |-> outcome, modelCalled |-> modelCalled,
   diagnosisId |-> diagnosisId, before |-> diagnoses.records]

\* !patientId || !conversationText
RespondFieldsMissing ==
  \E patientId \in Patients :
    Served(diagnoses.records, Result(400, patientId, <<>>, FALSE, "missing", FALSE, 0))

RespondPatientNotFound ==
  \E conversationText \in ConversationTexts :
    Served(diagnoses.records,
           Result(404, UnknownPatient, conversationText, FALSE, "noPatient", FALSE, 0))

\* An identical conversation of the patient exists: its id is returned.
RespondExistingDiagnosis ==
  \E patientId \in Patients, conversationText \in ConversationTexts,
     updateExisting \in BOOLEAN :
    LET matches == exactMatch(diagnoses.records, patientId, conversationText)
    IN /\ matches # {}
       /\ Served(diagnoses.records,
                 Result(200, patientId, conversationText, updateExisting, "existing", FALSE,
                        diagnoses.records[maxOf(matches)].id))

\* The model was called and its answer is unusable (500) or the call threw
\* (next(error)).
RespondAnalysisFailed ==
  \E patientId \in Patients, conversationText \in ConversationTexts,
     updateExisting \in BOOLEAN, outcome \in {"invalid", "threw"} :
    /\ exactMatch(diagnoses.records, patientId, conversationText) = {}
    /\ Served(diagnoses.records,
              Result(500, patientId, conversationText, updateExisting, outcome, TRUE, 0))

\* updateExisting and the new text extends the most recent conversation of
\* the patient: findByIdAndUpdate.
UpdatesRecentDiagnosis ==
  \E patientId \in Patients, conversationText \in ConversationTexts :
    LET own == recordsOf(diagnoses.records, patientId)
    IN /\ exactMatch(diagnoses.records, patientId, conversationText) = {}
       /\ own # {}
       /\ isConversationExtension(diagnoses.records[maxOf(own)].conversationText,
                                  conversationText)
       /\ Served([diagnoses.records EXCEPT
                    ![maxOf(own)].conversationText = trim(conversationText)],
                 Result(200, patientId, conversationText, TRUE, "updated", TRUE,
                        diagnoses.records[maxOf(own)].id))

\* new Diagnosis(...).save() fulfils.
CreatesDiagnosis ==
  \E patientId \in Patients, conversationText \in ConversationTexts,
     updateExisting \in BOOLEAN :
    LET own == recordsOf(diagnoses.records, patientId)
    IN /\ exactMatch(diagnoses.records, patientId, conversationText) = {}
       /\ IF updateExisting /\ own # {}
          THEN ~isConversationExtension(diagnoses.records[maxOf(own)].conversationText,
                                        conversationText)
          ELSE TRUE
       /\ Len(diagnoses.records) < MaxRecords
       /\ Served(Append(diagnoses.records,
                        [id |-> diagnoses.nextId, patient |-> patientId,
                         conversationText |-> trim(conversationText)]),
                 Result(200, patientId, conversationText, updateExisting, "created", TRUE,
                        diagnoses.nextId))

\* new Diagnosis(...).save() rejects (validation or database error).
SaveRejects ==
  \E patientId \in Patients, conversationText \in ConversationTexts,
     updateExisting \in BOOLEAN :
    LET own == recordsOf(diagnoses.records, patientId)
    IN /\ exactMatch(diagnoses.records, patientId, conversationText) = {}
       /\ IF updateExisting /\ own # {}
          THEN ~isConversationExtension(diagnoses.records[maxOf(own)].conversationText,
                                        conversationText)
          ELSE TRUE
       /\ Served(diagnoses.records,
                 Result(500, patientId, conversationText, updateExisting, "saveFailed", TRUE, 0))

DiagnosisNext ==
  \/ RespondFieldsMissing
  \/ RespondPatientNotFound
  \/ RespondExistingDiagnosis
  \/ RespondAnalysisFailed
  \/ UpdatesRecentDiagnosis
  \/ CreatesDiagnosis
  \/ SaveRejects

DiagnosisSpec == DiagnosisInit /\ [][DiagnosisNext]_vars

\* The last request found the text it sent, as stored, among the records of
\* its patient before it was served.
sentExistingText ==
  /\ diagnoses.last.status # 0
  /\ \E i \in 1..Len(diagnoses.last.before) :
       /\ diagnoses.last.before[i].patient = diagnoses.last.patient
       /\ diagnoses.last.before[i].conversationText = trim(diagnoses.last.conversationText)

\* C30: after any sequence of analyzeConversation requests that do not
\* overlap, no two Diagnosis records of a patient have the same
\* conversationText; a request whose text matches an existing record of the
\* patient returns the id of that record without calling the model and
\* without creating or updating a record; and a request that succeeded
\* leaves a record of its text behind, so that repeating it leaves the
\* store unchanged.
C30_NoDuplicateConversation ==
  diagnoses.pc # "unused" =>
    /\ \A i, j \in 1..Len(diagnoses.records) :
         /\ i # j
         /\ diagnoses.records[i].patient = diagnoses.records[j].patient
         => diagnoses.records[i].conversationText # diagnoses.records[j].conversationText
    /\ sentExistingText =>
         /\ diagnoses.last.status = 200
         /\ ~diagnoses.last.modelCalled
         /\ diagnoses.records = diagnoses.last.before
         /\ \E i \in 1..Len(diagnoses.records) :
              /\ diagnoses.records[i].id = diagnoses.last.diagnosisId
              /\ diagnoses.records[i].patient = diagnoses.last.patient
              /\ diagnoses.records[i].conversationText = trim(diagnoses.last.conversationText)
    /\ diagnoses.last.status = 200 =>
         \E i \in 1..Len(diagnoses.records) :
           /\ diagnoses.records[i].id = diagnoses.last.diagnosisId
           /\ diagnoses.records[i].patient = diagnoses.last.patient
           /\ diagnoses.records[i].conversationText = trim(diagnoses.last.conversationText)

\* C30: the request that follows a successful one and repeats it changes
\* nothing and returns the same id without calling the model.
C30_RepeatLeavesStore ==
  [][/\ diagnoses.pc # "unused"
     /\ diagnoses.last.status = 200
     /\ diagnoses'.last.patient = diagnoses.last.patient
     /\ diagnoses'.last.conversationText = diagnoses.last.conversationText
     => /\ diagnoses'.records = diagnoses.records
        /\ diagnoses'.last.status = 200
        /\ ~diagnoses'.last.modelCalled
        /\ diagnoses'.last.diagnosisId = diagnoses.last.diagnosisId]_vars

\* C30: a request whose text, padded with whitespace, matches the record
\* created first was answered with the id of that record; the collection
\* holds three records.
C30_Witness ==
  /\ diagnoses.pc # "unused"
  /\ Len(diagnoses.records) = 3
  /\ diagnoses.last.status = 200
  /\ diagnoses.last.outcome = "existing"
  /\ diagnoses.last.conversationText = ConversationFeverPadded
  /\ diagnoses.last.diagnosisId = 1
  /\ diagnoses.records = diagnoses.last.before

\* C30: an update has replaced the text of the most recent record.
C30_WitnessUpdated ==
  /\ diagnoses.pc # "unused"
  /\ diagnoses.last.outcome = "updated"
  /\ Len(diagnoses.records) = 2
  /\ diagnoses.records[1].conversationText = ConversationFeverCough
  /\ diagnoses.last.before[1].conversationText = ConversationFever

=============================================================================
